---- MODULE Spec2Model ----
(***************************************************************************)
(* A model of the verification pipeline of amazon-listing-ai-assistant:    *)
(* the Rate Limiter (utils/rateLimiter), the Result Store                  *)
(* (services/storage) and the Verification Orchestrator                    *)
(* (pages/AutomatedPropertyVerification).                                  *)
(*                                                                         *)
(* The program runs on one JavaScript thread.  A step of the model is one  *)
(* turn of that thread: the synchronous code between two awaits.           *)
(***************************************************************************)
EXTENDS Integers, Sequences, FiniteSets, TLC

(***************************************************************************)
(* Bounds of the model and constants of the program.                       *)
(***************************************************************************)
\* execute() calls made in one behaviour of a Rate Limiter whose limit is
\* not the default
MaxCalls == 5
\* execute() calls made in one behaviour of a Rate Limiter with the default
\* limit (the ten launched tasks of the sequential-execution property)
SerialLaunches == 10
\* the largest limit a Rate Limiter is constructed with
MaxLimit == 2
\* config.AI_API_RATE_LIMIT, the default limit
AI_API_RATE_LIMIT == 1
\* the latest value of the clock (Date.now())
MaxTime == 2
\* Result Store operations made in one behaviour of SpecStore
MaxOps == 5
\* generateJson calls that share the Rate Limiter in one behaviour
MaxRetryCallers == 3
\* fragments a text given to the Data Repair Engine is made of
MaxParts == 3
\* characters of such a text
MaxText == 48

VARIABLES
    \* ---- RateLimiter ----
    queue,          \* RateLimiter.queue: the resolvers of the waiting callers
    runningCount,   \* RateLimiter.runningCount
    maxConcurrent,  \* RateLimiter.maxConcurrent
    callerPc,       \* where each execute() call stands
    microtasks,     \* promise continuations scheduled and not yet run, in order
    nCalled,        \* execute() calls made so far; callers are numbered by arrival
    lastWake,       \* history: the waiter the latest release woke (0: none yet),
                    \* and whether the releasing task had been rejected
    \* ---- VerificationStorageService ----
    store,          \* the records of the object store 'verification-results'
    now,            \* the clock: what Date.now() last returned
    lastOp,         \* history: the latest operation on the store and its arguments
    written,        \* history: the keys saved and not deleted since
    nOps,           \* history: the operations made so far
    \* ---- AutomatedPropertyVerification ----
    processingRef,  \* processingRef.current
    isProcessing,   \* the React state isProcessing (enables the buttons)
    runPc,          \* where each call of handleStartTask stands
    runIndex,       \* its currentIndex
    toCheck,        \* the sites its processProperty has still to check
    subtasks,       \* the subtask promises it created and that are still referenced
    batchStart,     \* the i of processProperty's batch loop
    skippedSubtasks,\* processProperty's skippedSubtasks
    pauseRequested, \* history: handlePauseTask was called since the last start
    pausedRuns,     \* history: the runs handlePauseTask was called during
    lastCheck,      \* history: the latest reuse check and what the store held
    startsLeft,     \* the starts the operator still makes
    \* ---- Data Repair Engine ----
    inputParts,     \* the fragments the stored text is made of
    storedText,     \* the stored text ensureCompressedJson is given
    repairResult,   \* what it returned, for the text and then for its own output
    \* ---- validateData ----
    valData,     \* the data validateData is given
    valSchema,   \* the schema it is given
    valErrors,\* what it returned, once it was called
    \* ---- SyncService ----
    syncPc,      \* where syncByProperty stands
    syncProperty, \* the propertyName it was given
    groupedData, \* the groups syncGroupedData was given
    syncIndex,   \* syncGroupedData's i, counted from 1
    batchResult, \* the BatchSyncResult, once there is one
    isSyncing,      \* SyncService.isSyncing
    \* ---- handleRetryFailedResults ----
    retryPc,     \* where handleRetryFailedResults stands
    isRetryingFailed, \* the state isRetryingFailed
    failedResults, \* what getFailedResults returned
    retryTasks,  \* the callbacks of batch.map, one per failed result
    retryBatchStart, \* the i of the batch loop
    apiCalls,    \* history: the lookups the retry made
    startStore,     \* history: the store when the retry started
    \* ---- handleDataCleaning ----
    cleaningPc,  \* where handleDataCleaning stands
    isDataCleaning, \* the state isDataCleaning
    allResults,  \* what getAllResults returned
    cleaningTasks, \* the callbacks of batch.map: "run" or "done"
    cleaningStart,  \* history: the store when the cleanup started
    \* ---- one subtask of processProperty, request by request ----
    attemptPc,   \* where the subtask stands
    schemaCache, \* schemaCache[cacheKey]: the schema is cached
    schemaRetryCount, \* retryCount of the getSchema call at work
    aiRetryCount, \* retryCount of the executeWithRetry call at work
    schemaRequests, \* history: the schema requests made
    aiRequests,  \* history: the generateContent requests made
    retryDelay,  \* the seconds executeWithRetry waits for
    waited,      \* history: the delays waited for, in seconds
    attemptResult,  \* what the subtask returned
    responseResults,\* the subtask's result on each response text, computed once
    \* ---- parseSchemaProperties on its own ----
    refSchema,   \* the schema parseSchemaProperties is called with
    refOutcome,     \* what the call returned or threw
    \* ---- the results page's grouping ----
    viewResults, \* the results groupResultsByPropertyAndValue is called with
    propertyGroups, \* the PropertyGroup list it returned
    \* ---- syncAllByProperty, request by request ----
    allPc,       \* where syncAllByProperty stands
    allGroupedData, \* allGroupedData
    allIndex,    \* syncGroupedData's i, counted from 1
    allResult,   \* the BatchSyncResult built or returned
    allSyncing,  \* this.isSyncing during the full sync
    posted,      \* history: the indexes of the groups posted, in order
    inFlight,       \* history: the sync requests not settled yet
    \* ---- concurrent getSchema calls on the shared schemaCache ----
    getPc,       \* where each getSchema call stands
    getPair,     \* the (site, productType) of each call
    getRetryCount, \* retryCount of each call
    cachedSchemas, \* the cache keys schemaCache holds a schema for
    fetchesStarted, \* history: the remote fetches started, per cache key
    fetchesDone,    \* history: the remote fetches that succeeded, per cache key
    \* ---- removeMarketplaceIdRecursively applied to parsed JSON values ----
    stripPc,     \* "input", "stripped" after the call, "again" after a call on its result
    stripInput,  \* the parsed value handed to removeMarketplaceIdRecursively
    stripResult, \* what the call on stripInput gave
    stripAgain,     \* what the call on the first call's cleaned value gave
    \* ---- generateJson calls that retry through the Rate Limiter ----
    lrStage,     \* where each generateJson call stands: "none", "inExecute", "waiting" for its retry delay, "returned", "threw"
    lrRetryCount, \* retryCount of each call's executeWithRetry
    lrReply         \* how the last request of each call ended

rlVars == <<queue, runningCount, maxConcurrent, callerPc, microtasks, nCalled,
            lastWake>>

storeVars == <<store, now, lastOp, written, nOps>>

runVars == <<processingRef, isProcessing, runPc, runIndex, toCheck, subtasks,
             batchStart, skippedSubtasks, pauseRequested, pausedRuns, lastCheck, startsLeft>>

\* what the Rate Limiter's steps leave alone, and what the store's steps do
repairVars == <<inputParts, storedText, repairResult>>

validateVars == <<valData, valSchema, valErrors>>

syncVars == <<syncPc, syncProperty, groupedData, syncIndex, batchResult, isSyncing>>

retryVars == <<retryPc, isRetryingFailed, failedResults, retryTasks, retryBatchStart, apiCalls, startStore>>

cleaningVars == <<cleaningPc, isDataCleaning, allResults, cleaningTasks, cleaningStart>>

attemptVars == <<attemptPc, schemaCache, schemaRetryCount, aiRetryCount, schemaRequests, aiRequests, retryDelay, waited, attemptResult, responseResults>>

resolveVars == <<refSchema, refOutcome>>

groupVars == <<viewResults, propertyGroups>>

syncAllVars == <<allPc, allGroupedData, allIndex, allResult, allSyncing, posted, inFlight>>

cacheVars == <<getPc, getPair, getRetryCount, cachedSchemas, fetchesStarted, fetchesDone>>

stripVars == <<stripPc, stripInput, stripResult, stripAgain>>

limitedVars == <<lrStage, lrRetryCount, lrReply>>

nonRlVars == <<storeVars, runVars, repairVars, validateVars, syncVars, retryVars, cleaningVars, attemptVars, resolveVars, groupVars, syncAllVars, cacheVars, stripVars, limitedVars>>
nonStoreVars == <<rlVars, runVars, repairVars, validateVars, syncVars, retryVars, cleaningVars, attemptVars, resolveVars, groupVars, syncAllVars, cacheVars, stripVars, limitedVars>>
nonRunVars == <<rlVars, storeVars, repairVars, validateVars, syncVars, retryVars, cleaningVars, attemptVars, resolveVars, groupVars, syncAllVars, cacheVars, stripVars, limitedVars>>
nonRunStoreVars == <<rlVars, repairVars, validateVars, syncVars, retryVars, cleaningVars, attemptVars, resolveVars, groupVars, syncAllVars, cacheVars, stripVars, limitedVars>>
nonRepairVars == <<rlVars, storeVars, runVars, validateVars, syncVars, retryVars, cleaningVars, attemptVars, resolveVars, groupVars, syncAllVars, cacheVars, stripVars, limitedVars>>
nonValidateVars == <<rlVars, storeVars, runVars, repairVars, syncVars, retryVars, cleaningVars, attemptVars, resolveVars, groupVars, syncAllVars, cacheVars, stripVars, limitedVars>>
nonSyncVars == <<rlVars, storeVars, runVars, repairVars, validateVars, retryVars, cleaningVars, attemptVars, resolveVars, groupVars, syncAllVars, cacheVars, stripVars, limitedVars>>
nonRetryVars == <<rlVars, storeVars, runVars, repairVars, validateVars, syncVars, cleaningVars, attemptVars, resolveVars, groupVars, syncAllVars, cacheVars, stripVars, limitedVars>>
nonRetryStoreVars == <<rlVars, runVars, repairVars, validateVars, syncVars, cleaningVars, attemptVars, resolveVars, groupVars, syncAllVars, cacheVars, stripVars, limitedVars>>
nonCleaningVars == <<rlVars, storeVars, runVars, repairVars, validateVars, syncVars, retryVars, attemptVars, resolveVars, groupVars, syncAllVars, cacheVars, stripVars, limitedVars>>
nonCleaningStoreVars == <<rlVars, runVars, repairVars, validateVars, syncVars, retryVars, attemptVars, resolveVars, groupVars, syncAllVars, cacheVars, stripVars, limitedVars>>
nonAttemptVars == <<rlVars, storeVars, runVars, repairVars, validateVars, syncVars, retryVars, cleaningVars, resolveVars, groupVars, syncAllVars, cacheVars, stripVars, limitedVars>>
nonAttemptStoreVars == <<rlVars, runVars, repairVars, validateVars, syncVars, retryVars, cleaningVars, resolveVars, groupVars, syncAllVars, cacheVars, stripVars, limitedVars>>
nonResolveVars == <<rlVars, storeVars, runVars, repairVars, validateVars, syncVars, retryVars, cleaningVars, attemptVars, groupVars, syncAllVars, cacheVars, stripVars, limitedVars>>
nonGroupVars == <<rlVars, storeVars, runVars, repairVars, validateVars, syncVars, retryVars, cleaningVars, attemptVars, resolveVars, syncAllVars, cacheVars, stripVars, limitedVars>>
nonSyncAllVars == <<rlVars, storeVars, runVars, repairVars, validateVars, syncVars, retryVars, cleaningVars, attemptVars, resolveVars, groupVars, cacheVars, stripVars, limitedVars>>
nonCacheVars == <<rlVars, storeVars, runVars, repairVars, validateVars, syncVars, retryVars, cleaningVars, attemptVars, resolveVars, groupVars, syncAllVars, stripVars, limitedVars>>
nonStripVars == <<rlVars, storeVars, runVars, repairVars, validateVars, syncVars, retryVars, cleaningVars, attemptVars, resolveVars, groupVars, syncAllVars, cacheVars, limitedVars>>
nonLimitedVars == <<rlVars, storeVars, runVars, repairVars, validateVars, syncVars, retryVars, cleaningVars, attemptVars, resolveVars, groupVars, syncAllVars, cacheVars, stripVars>>
nonRlLimitedVars == <<storeVars, runVars, repairVars, validateVars, syncVars, retryVars, cleaningVars, attemptVars, resolveVars, groupVars, syncAllVars, cacheVars, stripVars>>

vars == <<queue, runningCount, maxConcurrent, callerPc, microtasks, nCalled,
          lastWake, store, now, lastOp, written, nOps,
          processingRef, isProcessing, runPc, runIndex, toCheck, subtasks,
          batchStart, skippedSubtasks, pauseRequested, pausedRuns, lastCheck, startsLeft,
          inputParts, storedText, repairResult,
          valData, valSchema, valErrors,
          syncPc, syncProperty, groupedData, syncIndex, batchResult, isSyncing,
          retryPc, isRetryingFailed, failedResults, retryTasks, retryBatchStart, apiCalls, startStore,
          cleaningPc, isDataCleaning, allResults, cleaningTasks, cleaningStart,
          attemptPc, schemaCache, schemaRetryCount, aiRetryCount, schemaRequests, aiRequests, retryDelay, waited, attemptResult, responseResults,
          refSchema, refOutcome,
          viewResults, propertyGroups,
          allPc, allGroupedData, allIndex, allResult, allSyncing, posted, inFlight,
          getPc, getPair, getRetryCount, cachedSchemas, fetchesStarted, fetchesDone,
          stripPc, stripInput, stripResult, stripAgain,
          lrStage, lrRetryCount, lrReply>>

(***************************************************************************)
(* Rate Limiter                                                            *)
(***************************************************************************)
Callers == 1..(IF SerialLaunches > MaxCalls THEN SerialLaunches ELSE MaxCalls)

\* the number of execute() calls the environment makes
Launches == IF maxConcurrent = AI_API_RATE_LIMIT THEN SerialLaunches ELSE MaxCalls

\* a caller holds one of the limiter's slots from its admission to its release
HoldsSlot(c) == callerPc[c] \in {"admitted", "running", "settledOk", "settledFail"}

\* the tasks whose function has started and has not settled
InFlight == {c \in Callers : callerPc[c] = "running"}

\* the calls of handleStartTask a session makes
Runs == {1, 2}

\* the orchestrator before any start, with no start to come
RunIdle ==
    /\ processingRef = FALSE
    /\ isProcessing = FALSE
    /\ runPc = [r \in Runs |-> "idle"]
    /\ runIndex = [r \in Runs |-> 0]
    /\ toCheck = [r \in Runs |-> <<>>]
    /\ subtasks = [r \in Runs |-> <<>>]
    /\ batchStart = [r \in Runs |-> 0]
    /\ skippedSubtasks = [r \in Runs |-> 0]
    /\ pauseRequested = FALSE
    /\ pausedRuns = {}
    /\ lastCheck = [op |-> "none"]
    /\ startsLeft = 0

\* the Data Repair Engine never called
RepairIdle ==
    /\ inputParts = <<>>
    /\ storedText = ""
    /\ repairResult = <<>>

\* validateData never called
ValidateIdle ==
    /\ valData = <<>>
    /\ valSchema = <<>>
    /\ valErrors = <<>>

\* the Rate Limiter never called
RLIdle ==
    /\ queue = <<>>
    /\ runningCount = 0
    /\ maxConcurrent = AI_API_RATE_LIMIT
    /\ callerPc = [c \in Callers |-> "idle"]
    /\ microtasks = <<>>
    /\ nCalled = 0
    /\ lastWake = <<0, FALSE>>

\* the empty store, never used
StoreIdle ==
    /\ store = {}
    /\ now = 0
    /\ lastOp = [op |-> "none"]
    /\ written = {}
    /\ nOps = 0

\* the sync service never called
SyncIdle ==
    /\ syncPc = "idle"
    /\ syncProperty = ""
    /\ groupedData = <<>>
    /\ syncIndex = 0
    /\ batchResult = <<>>
    /\ isSyncing = FALSE

\* no retry of the failed results asked for
RetryIdle ==
    /\ retryPc = "idle"
    /\ isRetryingFailed = FALSE
    /\ failedResults = <<>>
    /\ retryTasks = <<>>
    /\ retryBatchStart = 0
    /\ apiCalls = {}
    /\ startStore = {}

\* no cleanup asked for
CleaningIdle ==
    /\ cleaningPc = "idle"
    /\ isDataCleaning = FALSE
    /\ allResults = <<>>
    /\ cleaningTasks = <<>>
    /\ cleaningStart = {}

\* no subtask followed request by request
AttemptIdle ==
    /\ attemptPc = "idle"
    /\ schemaCache = FALSE
    /\ schemaRetryCount = 0
    /\ aiRetryCount = 0
    /\ schemaRequests = 0
    /\ aiRequests = 0
    /\ retryDelay = 0
    /\ waited = <<>>
    /\ attemptResult = <<>>
    /\ responseResults = <<>>

\* no schema being resolved
ResolveIdle ==
    /\ refSchema = <<>>
    /\ refOutcome = <<>>

\* no results grouped for the results page
GroupIdle ==
    /\ viewResults = <<>>
    /\ propertyGroups = <<>>

\* no full sync
SyncAllIdle ==
    /\ allPc = "idle"
    /\ allGroupedData = <<>>
    /\ allIndex = 0
    /\ allResult = <<>>
    /\ allSyncing = FALSE
    /\ posted = <<>>
    /\ inFlight = 0

\* no getSchema call followed
CacheIdle ==
    /\ getPc = <<>>
    /\ getPair = <<>>
    /\ getRetryCount = <<>>
    /\ cachedSchemas = {}
    /\ fetchesStarted = <<>>
    /\ fetchesDone = <<>>

\* no value handed to removeMarketplaceIdRecursively
StripIdle ==
    /\ stripPc = "off"
    /\ stripInput = <<>>
    /\ stripResult = <<>>
    /\ stripAgain = <<>>

\* no generateJson call followed through the Rate Limiter
LimitedIdle ==
    /\ lrStage = <<>>
    /\ lrRetryCount = <<>>
    /\ lrReply = <<>>

InitRL ==
    /\ RunIdle
    /\ RepairIdle
    /\ LimitedIdle
    /\ StripIdle
    /\ CacheIdle
    /\ SyncAllIdle
    /\ GroupIdle
    /\ ResolveIdle
    /\ AttemptIdle
    /\ CleaningIdle
    /\ RetryIdle
    /\ SyncIdle
    /\ ValidateIdle
    /\ store = {}
    /\ now = 0
    /\ lastOp = [op |-> "none"]
    /\ written = {}
    /\ nOps = 0
    /\ queue = <<>>
    /\ runningCount = 0
    /\ maxConcurrent \in {AI_API_RATE_LIMIT} \cup (1..MaxLimit)
    /\ callerPc = [c \in Callers |-> "idle"]
    /\ microtasks = <<>>
    /\ nCalled = 0
    /\ lastWake = <<0, FALSE>>

\* waitForSlot with the limit test off by one
waitForSlotOffByOne(c) ==
    IF runningCount <= maxConcurrent
    THEN /\ runningCount' = runningCount + 1
         /\ callerPc' = [callerPc EXCEPT ![c] = "admitted"]
         /\ microtasks' = Append(microtasks, c)
         /\ queue' = queue
    ELSE /\ queue' = Append(queue, c)
         /\ callerPc' = [callerPc EXCEPT ![c] = "queued"]
         /\ UNCHANGED <<runningCount, microtasks>>

\* waitForSlot: take a free slot and return a resolved promise (its await
\* continues on a later microtask), or push a resolver on the queue
waitForSlot(c) ==
    IF runningCount < maxConcurrent
    THEN /\ runningCount' = runningCount + 1
         /\ callerPc' = [callerPc EXCEPT ![c] = "admitted"]
         /\ microtasks' = Append(microtasks, c)
         /\ queue' = queue
    ELSE /\ queue' = Append(queue, c)
         /\ callerPc' = [callerPc EXCEPT ![c] = "queued"]
         /\ UNCHANGED <<runningCount, microtasks>>

\* releaseSlot taking the newest waiter (pop) instead of the oldest (shift)
releaseSlotLifo(c) ==
    IF Len(queue) > 0
    THEN LET next == queue[Len(queue)] IN
         /\ queue' = SubSeq(queue, 1, Len(queue) - 1)
         /\ callerPc' = [callerPc EXCEPT ![c] = "done", ![next] = "admitted"]
         /\ microtasks' = Append(Tail(microtasks), next)
         /\ runningCount' = runningCount
    ELSE /\ runningCount' = runningCount - 1
         /\ callerPc' = [callerPc EXCEPT ![c] = "done"]
         /\ microtasks' = Tail(microtasks)
         /\ queue' = queue

\* releaseSlot that runs only when the task resolved (no finally block)
releaseSlotOnSuccessOnly(c) ==
    IF callerPc[c] = "settledFail"
    THEN /\ callerPc' = [callerPc EXCEPT ![c] = "done"]
         /\ microtasks' = Tail(microtasks)
         /\ UNCHANGED <<queue, runningCount>>
    ELSE IF Len(queue) > 0
    THEN LET next == Head(queue) IN
         /\ queue' = Tail(queue)
         /\ callerPc' = [callerPc EXCEPT ![c] = "done", ![next] = "admitted"]
         /\ microtasks' = Append(Tail(microtasks), next)
         /\ runningCount' = runningCount
    ELSE /\ runningCount' = runningCount - 1
         /\ callerPc' = [callerPc EXCEPT ![c] = "done"]
         /\ microtasks' = Tail(microtasks)
         /\ queue' = queue

\* releaseSlot that gives the slot back also when it hands it to a waiter
releaseSlotAlwaysDecrement(c) ==
    IF Len(queue) > 0
    THEN LET next == Head(queue) IN
         /\ queue' = Tail(queue)
         /\ callerPc' = [callerPc EXCEPT ![c] = "done", ![next] = "admitted"]
         /\ microtasks' = Append(Tail(microtasks), next)
         /\ runningCount' = runningCount - 1
    ELSE /\ runningCount' = runningCount - 1
         /\ callerPc' = [callerPc EXCEPT ![c] = "done"]
         /\ microtasks' = Tail(microtasks)
         /\ queue' = queue

\* releaseSlot, run from execute()'s finally block by caller c: hand the slot
\* to the oldest waiter (its resolver is called, its await continues on a
\* later microtask), or give the slot back
releaseSlot(c) ==
    IF Len(queue) > 0
    THEN LET next == Head(queue) IN
         /\ queue' = Tail(queue)
         /\ callerPc' = [callerPc EXCEPT ![c] = "done", ![next] = "admitted"]
         /\ microtasks' = Append(Tail(microtasks), next)
         /\ runningCount' = runningCount
    ELSE /\ runningCount' = runningCount - 1
         /\ callerPc' = [callerPc EXCEPT ![c] = "done"]
         /\ microtasks' = Tail(microtasks)
         /\ queue' = queue

\* execute(fn) is called: the synchronous part, up to `await waitForSlot()`
Execute ==
    /\ nCalled < Launches
    /\ LET c == nCalled + 1 IN
       /\ nCalled' = c
       /\ waitForSlot(c)
    /\ UNCHANGED <<maxConcurrent, lastWake>>
    /\ UNCHANGED nonRlVars

\* the continuation of `await waitForSlot()`: fn() is called
StartTask ==
    /\ microtasks # <<>>
    /\ callerPc[Head(microtasks)] = "admitted"
    /\ callerPc' = [callerPc EXCEPT ![Head(microtasks)] = "running"]
    /\ microtasks' = Tail(microtasks)
    /\ UNCHANGED <<queue, runningCount, maxConcurrent, nCalled, lastWake>>
    /\ UNCHANGED nonRlVars

\* the promise fn() returned settles: resolved (ok) or rejected
TaskSettle(c, ok) ==
    /\ callerPc[c] = "running"
    /\ callerPc' = [callerPc EXCEPT ![c] = IF ok THEN "settledOk" ELSE "settledFail"]
    /\ microtasks' = Append(microtasks, c)
    /\ UNCHANGED <<queue, runningCount, maxConcurrent, nCalled, lastWake>>
    /\ UNCHANGED nonRlVars

\* the continuation of `await fn()`: the finally block
Finally ==
    /\ microtasks # <<>>
    /\ callerPc[Head(microtasks)] \in {"settledOk", "settledFail"}
    /\ LET c == Head(microtasks) IN
       /\ releaseSlot(c)
       /\ lastWake' = IF \E w \in Callers : callerPc[w] = "queued" /\ callerPc'[w] # "queued"
                       THEN <<CHOOSE w \in Callers :
                                  callerPc[w] = "queued" /\ callerPc'[w] # "queued",
                              callerPc[c] = "settledFail">>
                       ELSE lastWake
    /\ UNCHANGED <<maxConcurrent, nCalled>>
    /\ UNCHANGED nonRlVars

NextRL ==
    \/ Execute
    \/ StartTask
    \/ \E c \in Callers, ok \in BOOLEAN : TaskSettle(c, ok)
    \/ Finally

(***************************************************************************)
(* JSON text (JSON.parse and JSON.stringify of the JavaScript runtime)     *)
(*                                                                         *)
(* A text is a string; a JSON value is a record [t, s, a]: t its type, s   *)
(* its text (of a string, a number, a literal, a member's key), a its      *)
(* elements (of an array), its members (of an object) or a member's value. *)
(***************************************************************************)
Ch(s, i) == SubSeq(s, i, i)

\* the characters the regular expression class \s and JSON.parse skip
IsWs(c) == c \in {" ", "\n", "\t", "\r"}

IsDigit(c) == c \in {"0", "1", "2", "3", "4", "5", "6", "7", "8", "9"}

JStr(s) == [t |-> "string", s |-> s, a |-> <<>>]
JNum(s) == [t |-> "number", s |-> s, a |-> <<>>]
JLit(s) == [t |-> "literal", s |-> s, a |-> <<>>]
JArr(a) == [t |-> "array", s |-> "", a |-> a]
JObj(a) == [t |-> "object", s |-> "", a |-> a]
JMember(k, v) == [t |-> "member", s |-> k, a |-> <<v>>]

\* the outcome of a parsing step: the value read and the position after it
Parsed(v, i) == [ok |-> TRUE, v |-> v, i |-> i]
SyntaxError(i) == [ok |-> FALSE, v |-> JLit("null"), i |-> i]

RECURSIVE SkipWs(_, _)
SkipWs(s, i) == IF i <= Len(s) /\ IsWs(Ch(s, i)) THEN SkipWs(s, i + 1) ELSE i

\* String.prototype.trim
RECURSIVE TrimEnd(_)
TrimEnd(s) == IF Len(s) > 0 /\ IsWs(Ch(s, Len(s)))
              THEN TrimEnd(SubSeq(s, 1, Len(s) - 1)) ELSE s

trim(s) == TrimEnd(SubSeq(s, SkipWs(s, 1), Len(s)))

\* a string literal, from the character after its opening quote
RECURSIVE ParseChars(_, _, _)
ParseChars(s, i, acc) ==
    IF i > Len(s) THEN SyntaxError(i)
    ELSE IF Ch(s, i) = "\"" THEN Parsed(JStr(acc), i + 1)
    ELSE IF Ch(s, i) = "\\"
    THEN IF i + 1 > Len(s) THEN SyntaxError(i + 1)
         ELSE IF Ch(s, i + 1) \in {"\"", "\\", "/"}
         THEN ParseChars(s, i + 2, acc \o Ch(s, i + 1))
         ELSE IF Ch(s, i + 1) = "n" THEN ParseChars(s, i + 2, acc \o "\n")
         ELSE IF Ch(s, i + 1) = "t" THEN ParseChars(s, i + 2, acc \o "\t")
         ELSE IF Ch(s, i + 1) = "r" THEN ParseChars(s, i + 2, acc \o "\r")
         ELSE SyntaxError(i + 1)
    ELSE IF Ch(s, i) \in {"\n", "\t", "\r"} THEN SyntaxError(i)
    ELSE ParseChars(s, i + 1, acc \o Ch(s, i))

RECURSIVE ParseDigits(_, _)
ParseDigits(s, i) ==
    IF i <= Len(s) /\ IsDigit(Ch(s, i)) THEN ParseDigits(s, i + 1) ELSE i

StartsWithAt(s, i, w) ==
    i + Len(w) - 1 <= Len(s) /\ SubSeq(s, i, i + Len(w) - 1) = w

RECURSIVE ParseValue(_, _)
RECURSIVE ParseElements(_, _, _)
RECURSIVE ParseMembers(_, _, _)

\* a value, from position i (white space skipped by the caller)
ParseValue(s, i) ==
    IF i > Len(s) THEN SyntaxError(i)
    ELSE IF Ch(s, i) = "\"" THEN ParseChars(s, i + 1, "")
    ELSE IF IsDigit(Ch(s, i))
    THEN LET j == ParseDigits(s, i) IN
         IF Ch(s, i) = "0" /\ j > i + 1 THEN Parsed(JNum("0"), i + 1)
         ELSE Parsed(JNum(SubSeq(s, i, j - 1)), j)
    ELSE IF StartsWithAt(s, i, "true") THEN Parsed(JLit("true"), i + 4)
    ELSE IF StartsWithAt(s, i, "false") THEN Parsed(JLit("false"), i + 5)
    ELSE IF StartsWithAt(s, i, "null") THEN Parsed(JLit("null"), i + 4)
    ELSE IF Ch(s, i) = "["
    THEN LET j == SkipWs(s, i + 1) IN
         IF j <= Len(s) /\ Ch(s, j) = "]" THEN Parsed(JArr(<<>>), j + 1)
         ELSE ParseElements(s, j, <<>>)
    ELSE IF Ch(s, i) = "{"
    THEN LET j == SkipWs(s, i + 1) IN
         IF j <= Len(s) /\ Ch(s, j) = "}" THEN Parsed(JObj(<<>>), j + 1)
         ELSE ParseMembers(s, j, <<>>)
    ELSE SyntaxError(i)

\* the elements of an array, from the position of the next element
ParseElements(s, i, acc) ==
    LET e == ParseValue(s, i) IN
    IF ~e.ok THEN e
    ELSE LET j == SkipWs(s, e.i) IN
         IF j > Len(s) THEN SyntaxError(j)
         ELSE IF Ch(s, j) = "]" THEN Parsed(JArr(Append(acc, e.v)), j + 1)
         ELSE IF Ch(s, j) = "," THEN ParseElements(s, SkipWs(s, j + 1), Append(acc, e.v))
         ELSE SyntaxError(j)

\* an object's member list with the member of key k set to v: a repeated key
\* keeps its place and takes the later value
SetMember(members, k, v) ==
    IF \E n \in 1..Len(members) : members[n].s = k
    THEN [n \in 1..Len(members) |->
             IF members[n].s = k THEN JMember(k, v) ELSE members[n]]
    ELSE Append(members, JMember(k, v))

\* the members of an object, from the position of the next key
ParseMembers(s, i, acc) ==
    IF i > Len(s) \/ Ch(s, i) # "\"" THEN SyntaxError(i)
    ELSE LET k == ParseChars(s, i + 1, "") IN
         IF ~k.ok THEN k
         ELSE LET c == SkipWs(s, k.i) IN
              IF c > Len(s) \/ Ch(s, c) # ":" THEN SyntaxError(c)
              ELSE LET e == ParseValue(s, SkipWs(s, c + 1)) IN
                   IF ~e.ok THEN e
                   ELSE LET j == SkipWs(s, e.i)
                            members == SetMember(acc, k.v.s, e.v)
                        IN  IF j > Len(s) THEN SyntaxError(j)
                            ELSE IF Ch(s, j) = "}" THEN Parsed(JObj(members), j + 1)
                            ELSE IF Ch(s, j) = ","
                            THEN ParseMembers(s, SkipWs(s, j + 1), members)
                            ELSE SyntaxError(j)

\* JSON.parse(text): the value, or the SyntaxError it throws; `after` tells
\* the error "Unexpected non-whitespace character after JSON at position n"
\* from the other syntax errors
JSONparse(text) ==
    LET r == ParseValue(text, SkipWs(text, 1))
        j == SkipWs(text, r.i)
    IN  IF ~r.ok THEN [ok |-> FALSE, v |-> r.v, after |-> FALSE]
        ELSE IF j <= Len(text) THEN [ok |-> FALSE, v |-> JLit("null"), after |-> TRUE]
        ELSE [ok |-> TRUE, v |-> r.v, after |-> FALSE]

\* the characters of a string as JSON.stringify quotes them
RECURSIVE Quote(_)
Quote(s) ==
    IF s = "" THEN ""
    ELSE LET c == Head(s) IN
         (IF c = "\"" THEN "\\\""
          ELSE IF c = "\\" THEN "\\\\"
          ELSE IF c = "\n" THEN "\\n"
          ELSE IF c = "\t" THEN "\\t"
          ELSE IF c = "\r" THEN "\\r"
          ELSE c) \o Quote(Tail(s))

RECURSIVE Spaces(_)
Spaces(n) == IF n = 0 THEN "" ELSE " " \o Spaces(n - 1)

RECURSIVE Stringify(_, _, _)
RECURSIVE StringifyList(_, _, _, _)

\* the items of an array or an object, separated by commas (and by line
\* breaks with `depth` times `indent` spaces when indent > 0)
StringifyList(items, n, indent, depth) ==
    IF n > Len(items) THEN ""
    ELSE (IF n > 1 THEN "," ELSE "")
         \o (IF indent > 0 THEN "\n" \o Spaces(indent * depth) ELSE "")
         \o Stringify(items[n], indent, depth)
         \o StringifyList(items, n + 1, indent, depth)

\* JSON.stringify(value, null, indent) at nesting depth `depth`
Stringify(v, indent, depth) ==
    IF v.t = "string" THEN "\"" \o Quote(v.s) \o "\""
    ELSE IF v.t \in {"number", "literal"} THEN v.s
    ELSE IF v.t = "member"
    THEN "\"" \o Quote(v.s) \o "\":" \o (IF indent > 0 THEN " " ELSE "")
         \o Stringify(v.a[1], indent, depth)
    ELSE LET open == IF v.t = "array" THEN "[" ELSE "{"
             close == IF v.t = "array" THEN "]" ELSE "}"
         IN  IF v.a = <<>> THEN open \o close
             ELSE open \o StringifyList(v.a, 1, indent, depth + 1)
                  \o (IF indent > 0 THEN "\n" \o Spaces(indent * depth) ELSE "")
                  \o close

\* JSON.stringify(value) and JSON.stringify(value, null, 2)
JSONstringify(v) == Stringify(v, 0, 0)
JSONstringifyPretty(v) == Stringify(v, 2, 0)

(***************************************************************************)
(* Schema validation (utils/valida.js, Ajv with allErrors)                 *)
(*                                                                         *)
(* A schema is a record of the keywords the model knows: type ("any" when  *)
(* absent), required, properties (a sequence of <<key, schema>>), items    *)
(* (a sequence of at most one schema) and minItems.                        *)
(***************************************************************************)
Schema(type, required, properties, items, minItems) ==
    [type |-> type, required |-> required, properties |-> properties,
     items |-> items, minItems |-> minItems]

\* the decimal text of a small index
IndexText(n) == Ch("0123456789", n + 1)

HasMember(v, k) == \E n \in 1..Len(v.a) : v.a[n].s = k
Member(v, k) == v.a[CHOOSE n \in 1..Len(v.a) : v.a[n].s = k].a[1]

\* an entry of validate.errors
AjvError(path, keyword, message) ==
    [instancePath |-> path, keyword |-> keyword, message |-> message]

RECURSIVE Errors(_, _, _)
RECURSIVE ItemErrors(_, _, _, _)
RECURSIVE PropertyErrors(_, _, _, _)

\* the errors of the elements of array v from index n on
ItemErrors(v, schema, path, n) ==
    IF n > Len(v.a) THEN <<>>
    ELSE Errors(v.a[n], schema, path \o "/" \o IndexText(n - 1))
         \o ItemErrors(v, schema, path, n + 1)

\* the errors of the members of object v named by properties n, n + 1, ...
PropertyErrors(v, properties, path, n) ==
    IF n > Len(properties) THEN <<>>
    ELSE (IF HasMember(v, properties[n][1])
          THEN Errors(Member(v, properties[n][1]), properties[n][2],
                      path \o "/" \o properties[n][1])
          ELSE <<>>)
         \o PropertyErrors(v, properties, path, n + 1)

\* every violation of `schema` by value v at instance path `path`
Errors(v, schema, path) ==
    IF schema.type # "any" /\ v.t # schema.type
    THEN <<AjvError(path, "type", "must be " \o schema.type)>>
    ELSE IF v.t = "array"
    THEN (IF Len(v.a) < schema.minItems
          THEN <<AjvError(path, "minItems", "must NOT have fewer than "
                                  \o IndexText(schema.minItems) \o " items")>>
          ELSE <<>>)
         \o (IF schema.items # <<>> THEN ItemErrors(v, schema.items[1], path, 1)
             ELSE <<>>)
    ELSE IF v.t = "object"
    THEN [n \in 1..Len(SelectSeq(schema.required, LAMBDA k : ~HasMember(v, k))) |->
             AjvError(path, "required", "must have required property '"
                 \o SelectSeq(schema.required, LAMBDA k : ~HasMember(v, k))[n] \o "'")]
         \o PropertyErrors(v, schema.properties, path, 1)
    ELSE <<>>

\* what a call of a function returned: a list, or undefined
Undefined == [type |-> "undefined", list |-> <<>>]
List(l) == [type |-> "array", list |-> l]

\* validateData returning validate.errors (or an empty list) in every case
validateDataAlwaysList(data, schema) == List(Errors(data, schema, ""))

\* validateData(data, schema): validate.errors when the data is not valid,
\* and no return statement otherwise
validateData(data, schema) ==
    LET errors == Errors(data, schema, "") IN
    IF errors # <<>> THEN List(errors) ELSE Undefined

\* String.prototype.includes
Includes(s, w) ==
    \E i \in 1..(Len(s) - Len(w) + 1) : SubSeq(s, i, i + Len(w) - 1) = w

(***************************************************************************)
(* Data Repair Engine (ensureCompressedJson)                               *)
(***************************************************************************)
\* String.prototype.replace(/from/g, to) for a literal pattern
RECURSIVE ReplaceAll(_, _, _)
ReplaceAll(s, from, to) ==
    IF Len(s) < Len(from) THEN s
    ELSE IF StartsWithAt(s, 1, from)
    THEN to \o ReplaceAll(SubSeq(s, Len(from) + 1, Len(s)), from, to)
    ELSE Head(s) \o ReplaceAll(Tail(s), from, to)

\* (s.match(/w/g) || []).length for a literal pattern
RECURSIVE CountOf(_, _)
CountOf(s, w) ==
    IF Len(s) < Len(w) THEN 0
    ELSE IF StartsWithAt(s, 1, w) THEN 1 + CountOf(SubSeq(s, Len(w) + 1, Len(s)), w)
    ELSE CountOf(Tail(s), w)

\* step 1: a text wrapped in escaped quotes, or with at least as many
\* escaped quotes as plain ones, has its quotes unescaped
unescapeQuotes(s) ==
    IF StartsWithAt(s, 1, "\\\"") /\ StartsWithAt(s, Len(s) - 1, "\\\"")
    THEN [text |-> ReplaceAll(SubSeq(s, 3, Len(s) - 2), "\\\"", "\""),
          wasModified |-> TRUE]
    ELSE IF Includes(s, "\\\"")
            /\ CountOf(s, "\\\"") >= CountOf(ReplaceAll(s, "\\\"", ""), "\"")
    THEN [text |-> ReplaceAll(s, "\\\"", "\""), wasModified |-> TRUE]
    ELSE [text |-> s, wasModified |-> FALSE]

\* .replace(/\s+/g, ' ')
RECURSIVE CollapseWs(_, _)
CollapseWs(s, i) ==
    IF i > Len(s) THEN ""
    ELSE IF IsWs(Ch(s, i)) THEN " " \o CollapseWs(s, SkipWs(s, i))
    ELSE Ch(s, i) \o CollapseWs(s, i + 1)

\* .replace(/\s*x\s*/g, 'x') for a character x, from position i on; afterX
\* tells that the character before i was an x
RECURSIVE StripAround(_, _, _, _)
StripAround(s, x, i, afterX) ==
    IF i > Len(s) THEN ""
    ELSE IF IsWs(Ch(s, i))
    THEN LET j == SkipWs(s, i) IN
         IF afterX \/ (j <= Len(s) /\ Ch(s, j) = x)
         THEN StripAround(s, x, j, afterX)
         ELSE SubSeq(s, i, j - 1) \o StripAround(s, x, j, FALSE)
    ELSE Ch(s, i) \o StripAround(s, x, i + 1, Ch(s, i) = x)

\* step 2: the basic format cleanup
cleanFormat(s) ==
    LET s1 == CollapseWs(s, 1)
        s2 == StripAround(s1, ":", 1, FALSE)
        s3 == StripAround(s2, ",", 1, FALSE)
        s4 == StripAround(s3, "[", 1, FALSE)
        s5 == StripAround(s4, "]", 1, FALSE)
        s6 == StripAround(s5, "{", 1, FALSE)
        s7 == StripAround(s6, "}", 1, FALSE)
    IN  trim(s7)

\* the position of the first character of s, from i on, that is in cs; 0 if none
RECURSIVE IndexOfAny(_, _, _)
IndexOfAny(s, cs, i) ==
    IF i > Len(s) THEN 0
    ELSE IF Ch(s, i) \in cs THEN i
    ELSE IndexOfAny(s, cs, i + 1)

\* the bracket-counting loop: the position where the bracket opened at the
\* start position closes; 0 if it does not
RECURSIVE firstJsonEnd(_, _, _, _, _)
firstJsonEnd(s, i, bracketCount, inString, escapeNext) ==
    IF i > Len(s) THEN 0
    ELSE IF escapeNext THEN firstJsonEnd(s, i + 1, bracketCount, inString, FALSE)
    ELSE IF Ch(s, i) = "\\" THEN firstJsonEnd(s, i + 1, bracketCount, inString, TRUE)
    ELSE IF Ch(s, i) = "\"" THEN firstJsonEnd(s, i + 1, bracketCount, ~inString, FALSE)
    ELSE IF ~inString /\ Ch(s, i) \in {"[", "{"}
    THEN firstJsonEnd(s, i + 1, bracketCount + 1, inString, FALSE)
    ELSE IF ~inString /\ Ch(s, i) \in {"]", "}"}
    THEN IF bracketCount - 1 = 0 THEN i
         ELSE firstJsonEnd(s, i + 1, bracketCount - 1, inString, FALSE)
    ELSE firstJsonEnd(s, i + 1, bracketCount, inString, FALSE)

\* processedString.match(/\[.*?\]/s): the text from the first '[' to the
\* first ']' after it; "" if there is none
arrayMatch(s) ==
    LET open == IndexOfAny(s, {"["}, 1)
        close == IF open = 0 THEN 0 ELSE IndexOfAny(s, {"]"}, open + 1)
    IN  IF close = 0 THEN "" ELSE SubSeq(s, open, close)

Thrown == [ok |-> FALSE, v |-> JLit("null"), wasModified |-> FALSE]

\* step 3: JSON.parse, and after the error "Unexpected non-whitespace
\* character after JSON" the extraction of the first JSON value
parseOrExtract(s) ==
    LET direct == JSONparse(s)
        startPos == IndexOfAny(s, {"[", "{"}, 1)
        end == firstJsonEnd(s, startPos, 0, FALSE, FALSE)
        first == JSONparse(SubSeq(s, startPos, end))
        byRegex == JSONparse(arrayMatch(s))
    IN  IF direct.ok THEN [ok |-> TRUE, v |-> direct.v, wasModified |-> FALSE]
        ELSE IF ~direct.after \/ startPos = 0 THEN Thrown
        ELSE IF end > 0 /\ first.ok THEN [ok |-> TRUE, v |-> first.v, wasModified |-> TRUE]
        ELSE IF arrayMatch(s) # "" /\ byRegex.ok
        THEN [ok |-> TRUE, v |-> byRegex.v, wasModified |-> TRUE]
        ELSE Thrown

\* utils/dataCleaners: removeMarketplaceIdRecursively
RECURSIVE deepCleanAndRemove(_)
deepCleanAndRemove(v) ==
    IF v.t = "array"
    THEN JArr([n \in 1..Len(v.a) |-> deepCleanAndRemove(v.a[n])])
    ELSE IF v.t = "object"
    THEN LET \* `cleaned[key] = ...` with the key "__proto__" runs the
             \* setter of Object.prototype and creates no own property
             kept == SelectSeq(v.a, LAMBDA m : m.s \notin {"marketplace_id",
                                                           "__proto__"}) IN
         JObj([n \in 1..Len(kept) |->
                  JMember(kept[n].s, deepCleanAndRemove(kept[n].a[1]))])
    ELSE v

RECURSIVE hasMarketplaceId(_)
hasMarketplaceId(v) ==
    IF v.t = "array" THEN \E n \in 1..Len(v.a) : hasMarketplaceId(v.a[n])
    ELSE IF v.t = "object"
    THEN \E n \in 1..Len(v.a) :
            v.a[n].s = "marketplace_id" \/ hasMarketplaceId(v.a[n].a[1])
    ELSE FALSE

\* `obj.hasOwnProperty(key)` on a parsed object that has a member named
\* hasOwnProperty calls that member's value, which is no function: TypeError.
\* The value of a marketplace_id member is never visited.
RECURSIVE throwsTypeError(_)
throwsTypeError(v) ==
    IF v.t = "array" THEN \E n \in 1..Len(v.a) : throwsTypeError(v.a[n])
    ELSE IF v.t = "object"
    THEN \/ HasMember(v, "hasOwnProperty")
         \/ \E n \in 1..Len(v.a) :
               v.a[n].s # "marketplace_id" /\ throwsTypeError(v.a[n].a[1])
    ELSE FALSE

\* cleaned and removed are what a call that returns hands back
removeMarketplaceIdRecursively(v) ==
    [cleaned |-> deepCleanAndRemove(v), removed |-> hasMarketplaceId(v),
     threw |-> throwsTypeError(v)]

\* .replace(/"marketplace_id"\s*:\s*"[^"]*"\s*,?\s*/g, '')
RECURSIVE removeMarketplaceIdText(_, _)
removeMarketplaceIdText(s, i) ==
    IF i > Len(s) THEN ""
    ELSE LET colon == SkipWs(s, i + 16)
             open == SkipWs(s, colon + 1)
             close == IndexOfAny(s, {"\""}, open + 1)
             comma == SkipWs(s, close + 1)
             next == IF comma <= Len(s) /\ Ch(s, comma) = ","
                     THEN SkipWs(s, comma + 1) ELSE comma
         IN  IF /\ StartsWithAt(s, i, "\"marketplace_id\"")
                /\ colon <= Len(s) /\ Ch(s, colon) = ":"
                /\ open <= Len(s) /\ Ch(s, open) = "\""
                /\ close > 0
             THEN removeMarketplaceIdText(s, next)
             ELSE Ch(s, i) \o removeMarketplaceIdText(s, i + 1)

\* .replace(/,\s*c/g, 'c') for a closing bracket c
RECURSIVE dropCommaBefore(_, _, _)
dropCommaBefore(s, c, i) ==
    IF i > Len(s) THEN ""
    ELSE LET j == SkipWs(s, i + 1) IN
         IF Ch(s, i) = "," /\ j <= Len(s) /\ Ch(s, j) = c
         THEN c \o dropCommaBefore(s, c, j + 1)
         ELSE Ch(s, i) \o dropCommaBefore(s, c, i + 1)

\* .replace(/o\s*,/g, 'o') for an opening bracket o
RECURSIVE dropCommaAfter(_, _, _)
dropCommaAfter(s, o, i) ==
    IF i > Len(s) THEN ""
    ELSE LET j == SkipWs(s, i + 1) IN
         IF Ch(s, i) = o /\ j <= Len(s) /\ Ch(s, j) = ","
         THEN o \o dropCommaAfter(s, o, j + 1)
         ELSE Ch(s, i) \o dropCommaAfter(s, o, i + 1)

\* .replace(/,(\s*[}\]])/g, '$1')
RECURSIVE dropTrailingCommas(_, _)
dropTrailingCommas(s, i) ==
    IF i > Len(s) THEN ""
    ELSE LET j == SkipWs(s, i + 1) IN
         IF Ch(s, i) = "," /\ j <= Len(s) /\ Ch(s, j) \in {"}", "]"}
         THEN SubSeq(s, i + 1, j) \o dropTrailingCommas(s, j + 1)
         ELSE Ch(s, i) \o dropTrailingCommas(s, i + 1)

\* .replace(/[\x00-\x1F\x7F]/g, '')
RECURSIVE removeControl(_)
removeControl(s) ==
    IF s = "" THEN ""
    ELSE (IF Head(s) \in {"\n", "\t", "\r"} THEN "" ELSE Head(s))
         \o removeControl(Tail(s))

\* the string-level fallback after a failed parse
fixString(s) ==
    LET removed ==
            dropCommaAfter(
              dropCommaBefore(
                dropCommaAfter(
                  dropCommaBefore(removeMarketplaceIdText(s, 1), "}", 1),
                  "{", 1),
                "]", 1),
              "[", 1)
        s1 == IF Includes(s, "\"marketplace_id\"") THEN removed ELSE s
    IN  [text |-> dropTrailingCommas(removeControl(s1), 1),
         hadMarketplaceId |-> s1 # s]

\* a final value that is a JavaScript string, and one that is not
Text(s) == [isString |-> TRUE, text |-> s, v |-> JLit("null")]
Value(v) == IF v.t = "string" THEN Text(v.s)
            ELSE [isString |-> FALSE, text |-> "", v |-> v]

\* step 6: the text handed back and the flags of the result
compressedResult(jsonString, modified, hadMarketplaceId, processingMethod, isValidArray, isString, compressed) ==
    [compressed |-> compressed,
     wasModified |-> modified \/ ~isString \/ compressed # jsonString,
     hadMarketplaceId |-> hadMarketplaceId,
     processingMethod |-> processingMethod,
     isValidArray |-> isValidArray]

\* step 6: compressed = typeof finalData === 'string' ? finalData
\*                                                   : JSON.stringify(finalData)
compress(jsonString, modified, hadMarketplaceId, processingMethod, isValidArray, finalData) ==
    compressedResult(jsonString, modified, hadMarketplaceId, processingMethod,
                     isValidArray, finalData.isString,
                     IF finalData.isString THEN finalData.text
                     ELSE JSONstringify(finalData.v))

\* the catch branch: string-level repair, then one more parse of the result
repairedBranch(jsonString, modified, hadMarketplaceId, fixedText, changed, repairedJson, repairing) ==
    IF changed /\ repairedJson.ok
    THEN IF repairedJson.v.t = "array"
         THEN IF repairing.threw
              \* caught by the inner catch, after isValidArray = true
              THEN compress(jsonString, modified, hadMarketplaceId,
                            "string_processed", TRUE, Text(fixedText))
              ELSE
              compress(jsonString, modified \/ repairing.removed,
                       hadMarketplaceId \/ repairing.removed,
                       "string_processed", TRUE, Value(repairing.cleaned))
         ELSE compress(jsonString, modified, hadMarketplaceId,
                       "string_processed", FALSE, Value(repairedJson.v))
    ELSE compress(jsonString, modified, hadMarketplaceId,
                  "string_processed", FALSE, Text(fixedText))

stringRepair(jsonString, modified, processedString, fixed, repairedJson) ==
    repairedBranch(jsonString,
                   modified \/ fixed.hadMarketplaceId
                            \/ fixed.text # processedString,
                   fixed.hadMarketplaceId, fixed.text,
                   fixed.text # processedString, repairedJson,
                   removeMarketplaceIdRecursively(repairedJson.v))

stringBranch(jsonString, modified, processedString, fixed) ==
    stringRepair(jsonString, modified, processedString, fixed,
                 JSONparse(fixed.text))

\* steps 4-5 of the parsed branch: array check and marketplace_id removal
cleanParsed(jsonString, modified, jsonData, cleaning) ==
    compress(jsonString, modified \/ cleaning.removed, cleaning.removed,
             "json_parsed", jsonData.t = "array", Value(cleaning.cleaned))

\* step 3, the double-encoded case: a string result is parsed a second time;
\* a throw of the removal is caught by the catch branch
parsedData(jsonString, modified, processedString, jsonData, cleaning) ==
    IF cleaning.threw
    THEN stringBranch(jsonString, modified, processedString,
                      fixString(processedString))
    ELSE cleanParsed(jsonString, modified, jsonData, cleaning)

parsedValue(jsonString, modified, processedString, jsonData) ==
    parsedData(jsonString, modified, processedString, jsonData,
               removeMarketplaceIdRecursively(jsonData))

parsedBranch(jsonString, modified, processedString, parsed, second) ==
    parsedValue(jsonString,
                modified \/ parsed.wasModified
                         \/ (parsed.v.t = "string" /\ second.ok),
                processedString,
                IF parsed.v.t = "string" /\ second.ok THEN second.v
                ELSE parsed.v)

\* step 3: parse, or extract the first JSON value; any throw goes to the
\* catch branch
parseStep(jsonString, modified, processedString, parsed) ==
    IF parsed.ok
    THEN parsedBranch(jsonString, modified, processedString, parsed,
                      JSONparse(parsed.v.s))
    ELSE stringBranch(jsonString, modified, processedString,
                      fixString(processedString))

\* step 2: whitespace cleanup; a change of length marks the text modified
cleanStep(jsonString, unescaped, processedString) ==
    parseStep(jsonString,
              unescaped.wasModified
                  \/ Len(processedString) # Len(unescaped.text),
              processedString, parseOrExtract(processedString))

\* step 1: escaped quotes
unescapeStep(jsonString, unescaped) ==
    cleanStep(jsonString, unescaped, cleanFormat(unescaped.text))

ensureCompressedJson(jsonString) ==
    IF trim(jsonString) = ""
    THEN [compressed |-> "", wasModified |-> FALSE, hadMarketplaceId |-> FALSE,
          processingMethod |-> "already_compressed", isValidArray |-> FALSE]
    ELSE unescapeStep(jsonString, unescapeQuotes(trim(jsonString)))

(***************************************************************************)
(* Result Store (VerificationStorageService)                               *)
(***************************************************************************)
\* site codes, product type codes and attribute names, each listed in the
\* order of its strings (the order IndexedDB keeps keys in)
SiteCodes == <<"DE", "FR", "UK", "US">>
TypeCodes == <<"BOOTS", "SANDALS", "SHOES">>
PropertyNames == <<"color", "material", "size">>

Range(seq) == {seq[i] : i \in 1..Len(seq)}
Rank(seq, x) == CHOOSE i \in 1..Len(seq) : seq[i] = x

\* the composite keys (site, productType, property) the environment uses
Keys == {<<"US", "BOOTS", "color">>, <<"US", "SANDALS", "color">>,
         <<"US", "SHOES", "color">>, <<"UK", "SHOES", "size">>}

Statuses == {"completed", "failed"}
Payloads == {"[{\"value\":\"red\"}]"}

\* what a read of a missing record returns
Null == [id |-> "null"]

\* generateId without the product type
generateIdNoProductType(site, productType, property) ==
    site \o "-" \o property

\* generateId: `${site}-${productType}-${property}`
generateId(site, productType, property) ==
    site \o "-" \o productType \o "-" \o property

\* an add instead of a put: the record is stored beside the one of its id
putAdd(records, rec) == records \cup {rec}

\* a put that empties the store first
putOnCleared(records, rec) == {rec}

\* IDBObjectStore.put on a store whose keyPath is 'id'
put(records, rec) == {r \in records : r.id # rec.id} \cup {rec}

\* IDBObjectStore.get(id)
get(records, id) ==
    IF \E r \in records : r.id = id
    THEN CHOOSE r \in records : r.id = id
    ELSE Null

\* the StoredVerificationResult saveResult builds
StoredResult(site, productType, property, data, status, time) ==
    [id |-> generateId(site, productType, property),
     site |-> site, productType |-> productType, property |-> property,
     aiGeneratedData |-> data, status |-> status, error |-> "",
     timestamp |-> time]

\* saveResult: the store after it
saveResult(site, productType, property, data, status, time) ==
    put(store, StoredResult(site, productType, property, data, status, time))

\* getResult
getResult(site, productType, property) ==
    get(store, generateId(site, productType, property))

\* hasResult that does not look at the status
hasResultAnyStatus(site, productType, property) ==
    get(store, generateId(site, productType, property)) # Null

\* hasResult: a record exists and its status is 'completed'
hasResult(site, productType, property) ==
    LET result == get(store, generateId(site, productType, property)) IN
    result # Null /\ result.status = "completed"

\* hasAnyResult
hasAnyResult(site, productType, property) ==
    get(store, generateId(site, productType, property)) # Null

\* index 'siteProperty': getAll([site, property])
getResultsBySiteProperty(site, property) ==
    {r \in store : r.site = site /\ r.property = property}

\* hasResultBySiteProperty
\* a reuse check that takes a record of any status
hasResultBySitePropertyAnyStatus(site, property) ==
    getResultsBySiteProperty(site, property) # {}

hasResultBySiteProperty(site, property) ==
    \E r \in getResultsBySiteProperty(site, property) : r.status = "completed"

\* hasAnyResultBySiteProperty
hasAnyResultBySiteProperty(site, property) ==
    getResultsBySiteProperty(site, property) # {}

\* the order of two records in getAllResults(): the order of their ids
IdBefore(r1, r2) ==
    LET s1 == Rank(SiteCodes, r1.site)
        s2 == Rank(SiteCodes, r2.site)
        t1 == Rank(TypeCodes, r1.productType)
        t2 == Rank(TypeCodes, r2.productType)
        p1 == Rank(PropertyNames, r1.property)
        p2 == Rank(PropertyNames, r2.property)
    IN  \/ s1 < s2
        \/ s1 = s2 /\ t1 < t2
        \/ s1 = s2 /\ t1 = t2 /\ p1 < p2

\* findDuplicateSitePropertyRecords: the records grouped by
\* `${site}-${property}`, the groups of more than one record kept
findDuplicateSitePropertyRecords ==
    LET groupKey(r) == r.site \o "-" \o r.property
        grouped == {{r \in store : groupKey(r) = groupKey(x)} : x \in store}
    IN  {g \in grouped : Cardinality(g) > 1}

\* the sort made ascending: the oldest record of a group is kept
toKeepOldest(records) ==
    CHOOSE r \in records :
        \A o \in records \ {r} :
            \/ o.timestamp > r.timestamp
            \/ o.timestamp = r.timestamp /\ IdBefore(r, o)

\* a choice that prefers a completed record to a later failed one
toKeepCompleted(records) ==
    CHOOSE r \in records :
        \A o \in records \ {r} :
            \/ r.status = "completed" /\ o.status # "completed"
            \/ /\ r.status = o.status
               /\ \/ o.timestamp < r.timestamp
                  \/ o.timestamp = r.timestamp /\ IdBefore(r, o)

\* the head of records.sort((a, b) => b.timestamp - a.timestamp): the sort is
\* stable, so of the records with the greatest timestamp the first in
\* getAllResults() order is kept
toKeep(records) ==
    CHOOSE r \in records :
        \A o \in records \ {r} :
            \/ o.timestamp < r.timestamp
            \/ o.timestamp = r.timestamp /\ IdBefore(r, o)

\* deleteResultById
deleteResultById(records, id) == {r \in records : r.id # id}

\* the records removeDuplicateSitePropertyRecords deletes
toRemove == UNION {g \ {toKeep(g)} : g \in findDuplicateSitePropertyRecords}

\* the store of a new database, and a Rate Limiter nobody calls
InitStore ==
    /\ RunIdle
    /\ RepairIdle
    /\ LimitedIdle
    /\ StripIdle
    /\ CacheIdle
    /\ SyncAllIdle
    /\ GroupIdle
    /\ ResolveIdle
    /\ AttemptIdle
    /\ CleaningIdle
    /\ RetryIdle
    /\ SyncIdle
    /\ ValidateIdle
    /\ store = {}
    /\ now = 0
    /\ lastOp = [op |-> "none"]
    /\ written = {}
    /\ nOps = 0
    /\ queue = <<>>
    /\ runningCount = 0
    /\ maxConcurrent = AI_API_RATE_LIMIT
    /\ callerPc = [c \in Callers |-> "idle"]
    /\ microtasks = <<>>
    /\ nCalled = 0
    /\ lastWake = <<0, FALSE>>

KeyOf(r) == <<r.site, r.productType, r.property>>

\* saveResult(result), Date.now() having advanced or not
SaveResult ==
    \E k \in Keys, status \in Statuses, data \in Payloads,
       t \in {now, IF now < MaxTime THEN now + 1 ELSE now} :
        /\ nOps < MaxOps
        /\ store' = saveResult(k[1], k[2], k[3], data, status, t)
        /\ now' = t
        /\ lastOp' = [op |-> "save", key |-> k, data |-> data, status |-> status,
                      time |-> t, existed |-> hasAnyResult(k[1], k[2], k[3])]
        /\ written' = written \cup {k}
        /\ nOps' = nOps + 1
        /\ UNCHANGED nonStoreVars

\* updateResult(site, productType, property, updates), the updates being a
\* status: rejects with 'Result not found' when no record has the id
UpdateResult ==
    \E k \in Keys, status \in Statuses,
       t \in {now, IF now < MaxTime THEN now + 1 ELSE now} :
        LET id == generateId(k[1], k[2], k[3])
            existingResult == get(store, id)
        IN  /\ nOps < MaxOps
            /\ store' = IF existingResult = Null
                        THEN store
                        ELSE put(store, [existingResult EXCEPT !.status = status,
                                                                !.id = id,
                                                                !.timestamp = t])
            /\ now' = t
            /\ lastOp' = [op |-> "update", key |-> k,
                          found |-> (existingResult # Null)]
            /\ UNCHANGED written
            /\ nOps' = nOps + 1
            /\ UNCHANGED nonStoreVars

\* deleteResult(site, productType, property)
DeleteResult ==
    \E k \in Keys :
        /\ nOps < MaxOps
        /\ store' = deleteResultById(store, generateId(k[1], k[2], k[3]))
        /\ lastOp' = [op |-> "delete", key |-> k]
        /\ written' = written \ {k}
        /\ nOps' = nOps + 1
        /\ UNCHANGED now
        /\ UNCHANGED nonStoreVars

\* clearAllResults()
ClearAllResults ==
    /\ nOps < MaxOps
    /\ store # {}
    /\ store' = {}
    /\ lastOp' = [op |-> "clear"]
    /\ written' = {}
    /\ nOps' = nOps + 1
    /\ UNCHANGED now
    /\ UNCHANGED nonStoreVars

\* removeDuplicateSitePropertyRecords()
RemoveDuplicateSitePropertyRecords ==
    /\ nOps < MaxOps
    /\ store' = {r \in store : r.id \notin {d.id : d \in toRemove}}
    /\ lastOp' = [op |-> "dedup",
                  totalDuplicateGroups |-> Cardinality(findDuplicateSitePropertyRecords),
                  totalRecordsRemoved |-> Cardinality(toRemove),
                  removedTimes |-> {d.timestamp : d \in toRemove},
                  removedStatuses |-> {d.status : d \in toRemove}]
    /\ written' = written \ {KeyOf(r) : r \in toRemove}
    /\ nOps' = nOps + 1
    /\ UNCHANGED now
    /\ UNCHANGED nonStoreVars

NextStore ==
    \/ SaveResult
    \/ UpdateResult
    \/ DeleteResult
    \/ ClearAllResults
    \/ RemoveDuplicateSitePropertyRecords

SpecStore == InitStore /\ [][NextStore]_vars

SpecRL == InitRL /\ [][NextRL]_vars

\* every scheduled continuation runs, and every running task settles
SpecRLFair ==
    /\ InitRL /\ [][NextRL]_vars
    /\ WF_vars(StartTask)
    /\ WF_vars(Finally)
    /\ \A c \in Callers : WF_vars(\E ok \in BOOLEAN : TaskSettle(c, ok))

(***************************************************************************)
(* Verification Orchestrator (AutomatedPropertyVerification)               *)
(*                                                                         *)
(* A subtask's call of aiService.generateJson is one await of the          *)
(* orchestrator: the Rate Limiter it queues at is the model above.         *)
(***************************************************************************)
\* amazonApi.getAdapterProperties(): the tracked attributes, in order
AdapterProperties == <<"color", "material">>

\* amazonApi.findProductTypesByProperty(property): site -> productType, as
\* the list of its entries in Object.keys order
ProductTypesOf(property) ==
    IF property = "color"
    THEN << <<"DE", "SHOES">>, <<"FR", "SHOES">>, <<"UK", "SHOES">>, <<"US", "SHOES">> >>
    ELSE << <<"US", "SHOES">> >>

\* the stores a session may start with: what earlier sessions left
InitialStores ==
    { {},
      {StoredResult("US", "BOOTS", "color", "[{\"value\":\"red\"}]", "completed", 0),
       StoredResult("UK", "SHOES", "color", "", "failed", 0)} }

\* the response texts ai.models.generateContent may answer with for a
\* property: JSON that fits the schema, JSON that violates it twice, no JSON
AiResponses(property) ==
    IF property = "material"
    THEN {"[{\"value\":\"leather\"}]", "[{},{\"value\":1}]", "leather"}
    ELSE {"[{\"value\":\"red\"}]"}

\* its replies: an error, or a response text
AiReplies(property) ==
    {[ok |-> FALSE, text |-> ""]} \cup [ok : {TRUE}, text : AiResponses(property)]

\* aiService.generateJson, from the reply of the backend on: it throws
\* ("Generation failed") or returns the response as indented JSON text, or
\* as it is when it is no JSON.  No reply of AiReplies is wrapped in a
\* markdown fence, so the fence pattern never matches.
generateJson(reply) ==
    IF ~reply.ok \/ reply.text = "" THEN [ok |-> FALSE, text |-> ""]
    ELSE LET jsonStr == trim(reply.text)
             parsedJson == JSONparse(jsonStr)
         IN  [ok |-> TRUE,
              text |-> IF parsedJson.ok THEN JSONstringifyPretty(parsedJson.v)
                       ELSE jsonStr]

\* schema.properties[property] of the schemas the marketplace serves
PropertySchema ==
    Schema("array", <<>>, <<>>,
           <<Schema("object", <<"value">>,
                    << <<"value", Schema("string", <<>>, <<>>, <<>>, 0)>> >>,
                    <<>>, 0)>>,
           1)

\* parseSchemaProperties({type: 'object', properties: {[property]: propertySchema}})
processedSchema(property) ==
    Schema("object", <<>>, << <<property, PropertySchema>> >>, <<>>, 0)

\* an error message that names the first violation only
errorDetailsFirstOnly(errors, n) ==
    (IF errors[1].instancePath = "" THEN "root" ELSE errors[1].instancePath)
    \o ": " \o errors[1].message \o " (keyword: " \o errors[1].keyword \o ")"

\* validationErrors.map(...).join('; ')
RECURSIVE errorDetails(_, _)
errorDetails(errors, n) ==
    IF n > Len(errors) THEN ""
    ELSE (IF n > 1 THEN "; " ELSE "")
         \o (IF errors[n].instancePath = "" THEN "root" ELSE errors[n].instancePath)
         \o ": " \o errors[n].message
         \o " (keyword: " \o errors[n].keyword \o ")"
         \o errorDetails(errors, n + 1)

\* the taskResult processProperty builds from the text generateJson
\* returned (the messages are rendered in English)
taskResult(property, aiData) ==
    LET aiDataArray == JSONparse(aiData)
        validationErrors ==
            validateData(JObj(<<JMember(property, aiDataArray.v)>>),
                         processedSchema(property))
    IN  IF ~aiDataArray.ok
        THEN [status |-> "failed", aiGeneratedData |-> JSONstringify(JStr(aiData)),
              error |-> "validation exception: SyntaxError"]
        ELSE IF validationErrors.type # "undefined" /\ Len(validationErrors.list) > 0
        THEN [status |-> "failed", aiGeneratedData |-> JSONstringify(JStr(aiData)),
              error |-> "AI data validation failed: "
                        \o errorDetails(validationErrors.list, 1)]
        ELSE [status |-> "completed", aiGeneratedData |-> JSONstringify(JStr(aiData)),
              error |-> ""]

\* what a subtask hands to saveResult after generateJson settled with
\* `reply`: the failed result of its catch block when generateJson threw,
\* its taskResult otherwise
subtaskResult ==
    [property \in Range(AdapterProperties) |->
        [reply \in AiReplies(property) |->
            LET aiData == generateJson(reply) IN
            IF ~aiData.ok
            THEN [status |-> "failed", aiGeneratedData |-> "",
                  error |-> "Generation failed"]
            ELSE taskResult(property, aiData.text)]]

\* const concurrencyLimit = 3
concurrencyLimit == 3

\* the property processProperty is working on in run r
CurrentProperty(r) == AdapterProperties[runIndex[r] + 1]

\* the subtasks processProperty pushed for the property it is working on
CurrentSubtasks(r) ==
    SelectSeq(subtasks[r], LAMBDA t : t.property = CurrentProperty(r))

\* a subtask is in flight from the call of its async function to the
\* settling of its promise
Pending(t) == t.pc \in {"schema", "ai", "save", "unsettled"}

\* catch (storageError): the error is logged and the subtask returns its result
onStorageError(t) == [t EXCEPT !.pc = "done", !.saved = FALSE]

\* Promise.all(batch): rejected as soon as one promise is, resolved when all are
promiseAll(batch) ==
    IF \E i \in 1..Len(batch) : batch[i].pc = "rejected" THEN "rejected"
    ELSE IF \A i \in 1..Len(batch) : batch[i].pc = "done" THEN "resolved"
    ELSE "pending"

\* subtasks.slice(i, i + concurrencyLimit)
Batch(tasks, i) ==
    SubSeq(tasks, i + 1, IF i + concurrencyLimit < Len(tasks)
                         THEN i + concurrencyLimit ELSE Len(tasks))

InitRun ==
    /\ store \in InitialStores
    /\ now = 0
    /\ lastOp = [op |-> "none"]
    /\ written = {}
    /\ nOps = 0
    /\ queue = <<>>
    /\ runningCount = 0
    /\ maxConcurrent = AI_API_RATE_LIMIT
    /\ callerPc = [c \in Callers |-> "idle"]
    /\ microtasks = <<>>
    /\ nCalled = 0
    /\ lastWake = <<0, FALSE>>
    /\ processingRef = FALSE
    /\ isProcessing = FALSE
    /\ runPc = [r \in Runs |-> "idle"]
    /\ runIndex = [r \in Runs |-> 0]
    /\ toCheck = [r \in Runs |-> <<>>]
    /\ subtasks = [r \in Runs |-> <<>>]
    /\ batchStart = [r \in Runs |-> 0]
    /\ skippedSubtasks = [r \in Runs |-> 0]
    /\ pauseRequested = FALSE
    /\ pausedRuns = {}
    /\ lastCheck = [op |-> "none"]
    /\ startsLeft = 1
    /\ RepairIdle
    /\ LimitedIdle
    /\ StripIdle
    /\ CacheIdle
    /\ SyncAllIdle
    /\ GroupIdle
    /\ ResolveIdle
    /\ AttemptIdle
    /\ CleaningIdle
    /\ RetryIdle
    /\ SyncIdle
    /\ ValidateIdle

\* handleStartTask's loop after processProperty returned: success is the
\* value it returned (undefined counts as false)
ReturnToLoop(r, success) ==
    LET advance == success \/ processingRef
        index == IF advance THEN runIndex[r] + 1 ELSE runIndex[r]
        again == index < Len(AdapterProperties) /\ processingRef
    IN  /\ runIndex' = [runIndex EXCEPT ![r] = IF again \/ advance
                                                THEN index ELSE runIndex[r]]
        /\ IF again
           THEN /\ runPc' = [runPc EXCEPT ![r] = "refs"]
                /\ UNCHANGED <<processingRef, isProcessing>>
           ELSE IF processingRef
           THEN /\ runPc' = [runPc EXCEPT ![r] = "completed"]
                /\ processingRef' = FALSE
                /\ isProcessing' = FALSE
           ELSE /\ runPc' = [runPc EXCEPT ![r] = "paused"]
                /\ UNCHANGED <<processingRef, isProcessing>>
        \* the settled promises of the property are garbage
        /\ subtasks' = [subtasks EXCEPT ![r] = SelectSeq(subtasks[r], Pending)]

\* handleStartTask, up to processProperty's first await
HandleStartTask ==
    /\ ~isProcessing
    /\ Len(AdapterProperties) > 0
    /\ startsLeft > 0
    /\ \E r \in Runs :
        /\ runPc[r] = "idle"
        /\ \A q \in Runs : runPc[q] = "idle" => r <= q
        /\ runPc' = [runPc EXCEPT ![r] = "refs"]
        /\ runIndex' = [runIndex EXCEPT ![r] = 0]
    /\ isProcessing' = TRUE
    /\ processingRef' = TRUE
    /\ startsLeft' = startsLeft - 1
    /\ pauseRequested' = FALSE
    /\ UNCHANGED pausedRuns
    /\ UNCHANGED <<toCheck, subtasks, batchStart, skippedSubtasks, lastCheck>>
    /\ UNCHANGED nonRunVars

\* handlePauseTask
HandlePauseTask ==
    /\ isProcessing
    /\ isProcessing' = FALSE
    /\ processingRef' = FALSE
    /\ pauseRequested' = TRUE
    /\ pausedRuns' = pausedRuns \cup {r \in Runs : runPc[r] \notin {"idle", "paused", "completed"}}
    /\ UNCHANGED <<runPc, runIndex, toCheck, subtasks, batchStart, skippedSubtasks,
                   lastCheck, startsLeft>>
    /\ UNCHANGED nonRunVars

\* processProperty step 1: getReferenceProperties settles (with [] on failure)
GetReferenceProperties(r) ==
    /\ runPc[r] = "refs"
    /\ runPc' = [runPc EXCEPT ![r] = "types"]
    /\ UNCHANGED <<processingRef, isProcessing, runIndex, toCheck, subtasks,
                   batchStart, skippedSubtasks, pauseRequested, pausedRuns, lastCheck, startsLeft>>
    /\ UNCHANGED nonRunVars

\* processProperty step 2: findProductTypes settles, with {} on failure, and
\* processProperty returns undefined when no site was found
FindProductTypes(r) ==
    /\ runPc[r] = "types"
    /\ \E sites \in {ProductTypesOf(CurrentProperty(r)), <<>>} :
        IF Len(sites) = 0
        THEN /\ ReturnToLoop(r, FALSE)
             /\ UNCHANGED <<toCheck, batchStart, skippedSubtasks>>
        ELSE /\ runPc' = [runPc EXCEPT ![r] = "check"]
             /\ toCheck' = [toCheck EXCEPT ![r] = sites]
             /\ batchStart' = [batchStart EXCEPT ![r] = 0]
             /\ skippedSubtasks' = [skippedSubtasks EXCEPT ![r] = 0]
             /\ UNCHANGED <<processingRef, isProcessing, runIndex, subtasks>>
    /\ UNCHANGED <<pauseRequested, pausedRuns, lastCheck, startsLeft>>
    /\ UNCHANGED nonRunVars

\* processProperty step 3, one site of the loop: the stored result is reused
\* or a subtask is pushed, its async function running to its first await;
\* after the last site the batch loop awaits its first batch
CheckSite(r) ==
    /\ runPc[r] = "check"
    /\ toCheck[r] # <<>>
    /\ LET site == Head(toCheck[r])[1]
           productType == Head(toCheck[r])[2]
           property == CurrentProperty(r)
           hasValidResult == hasResultBySiteProperty(site, property)
           pushed == IF hasValidResult
                     THEN subtasks[r]
                     ELSE Append(subtasks[r],
                                 [property |-> property, site |-> site,
                                  productType |-> productType, pc |-> "schema",
                                  status |-> "pending", aiGeneratedData |-> "",
                                  error |-> "", response |-> "", saved |-> FALSE])
           last == Len(toCheck[r]) = 1
           none == SelectSeq(pushed, LAMBDA t : t.property = property) = <<>>
       IN  /\ toCheck' = [toCheck EXCEPT ![r] = Tail(toCheck[r])]
           /\ subtasks' = [subtasks EXCEPT ![r] = pushed]
           /\ skippedSubtasks' = [skippedSubtasks EXCEPT ![r] =
                                     IF hasValidResult THEN @ + 1 ELSE @]
           /\ runPc' = [runPc EXCEPT ![r] = IF ~last THEN "check"
                                            ELSE IF none THEN "stats" ELSE "batch"]
           /\ lastCheck' = [op |-> "check", site |-> site, productType |-> productType,
                            property |-> property,
                            skipped |-> skippedSubtasks'[r] = skippedSubtasks[r] + 1,
                            pushed |-> Len(subtasks'[r]) = Len(subtasks[r]) + 1,
                            completedTypes |->
                                {x.productType : x \in {y \in store :
                                    /\ y.site = site /\ y.property = property
                                    /\ y.status = "completed"}}]
    /\ UNCHANGED <<processingRef, isProcessing, runIndex, batchStart, pauseRequested, pausedRuns,
                   startsLeft>>
    /\ UNCHANGED nonRunVars

\* a subtask's getSchema ends: its requests all failed and the promise the
\* subtask awaits is settled by nothing (SchemaRequestEnds), or the schema
\* lacks the property (a failed result is returned, nothing is saved), or
\* generateJson is called
SubtaskSchema(r, j) ==
    /\ j \in 1..Len(subtasks[r])
    /\ subtasks[r][j].pc = "schema"
    /\ \E outcome \in {"unsettled", "missing", "ok"} :
        subtasks' = [subtasks EXCEPT ![r][j] =
            IF outcome = "unsettled"
            THEN [@ EXCEPT !.pc = "unsettled"]
            ELSE IF outcome = "missing"
            THEN [@ EXCEPT !.pc = "done", !.status = "failed", !.aiGeneratedData = "",
                           !.error = "Property not found in schema"]
            ELSE [@ EXCEPT !.pc = "ai"]]
    /\ UNCHANGED <<processingRef, isProcessing, runPc, runIndex, toCheck, batchStart,
                   skippedSubtasks, pauseRequested, pausedRuns, lastCheck, startsLeft>>
    /\ UNCHANGED nonRunVars

\* a subtask's generateJson settles: it throws, or its text is validated and
\* the result is handed to saveResult
SubtaskAi(r, j) ==
    /\ j \in 1..Len(subtasks[r])
    /\ subtasks[r][j].pc = "ai"
    /\ \E reply \in AiReplies(subtasks[r][j].property) :
        LET result == subtaskResult[subtasks[r][j].property][reply]
        IN  subtasks' = [subtasks EXCEPT ![r][j] =
                [@ EXCEPT !.pc = "save", !.status = result.status,
                          !.aiGeneratedData = result.aiGeneratedData,
                          !.error = result.error, !.response = reply.text]]
    /\ UNCHANGED <<processingRef, isProcessing, runPc, runIndex, toCheck, batchStart,
                   skippedSubtasks, pauseRequested, pausedRuns, lastCheck, startsLeft>>
    /\ UNCHANGED nonRunVars

\* a subtask's saveResult settles, the record written or a storage error
\* raised, and the subtask returns its result
SubtaskSave(r, j) ==
    /\ j \in 1..Len(subtasks[r])
    /\ subtasks[r][j].pc = "save"
    /\ LET t == subtasks[r][j] IN
       \E ok \in BOOLEAN :
        IF ok
        THEN /\ store' = put(store, [StoredResult(t.site, t.productType, t.property,
                                                   t.aiGeneratedData, t.status, now)
                                          EXCEPT !.error = t.error])
             /\ subtasks' = [subtasks EXCEPT ![r][j] =
                                [t EXCEPT !.pc = "done", !.saved = TRUE]]
        ELSE /\ store' = store
             /\ subtasks' = [subtasks EXCEPT ![r][j] = onStorageError(t)]
    /\ UNCHANGED <<processingRef, isProcessing, runPc, runIndex, toCheck, batchStart,
                   skippedSubtasks, pauseRequested, pausedRuns, lastCheck, startsLeft>>
    /\ UNCHANGED <<now, lastOp, written, nOps>>
    /\ UNCHANGED nonRunStoreVars

\* `await Promise.all(batch)` settles: the flag is checked and the next batch
\* awaited, or the statistics are read; a rejection goes to the outer catch
BatchSettled(r) ==
    /\ runPc[r] = "batch"
    /\ LET tasks == CurrentSubtasks(r)
           outcome == promiseAll(Batch(tasks, batchStart[r]))
       IN  /\ outcome # "pending"
           /\ IF outcome = "rejected" \/ ~processingRef
              THEN /\ ReturnToLoop(r, FALSE)
                   /\ UNCHANGED batchStart
              ELSE /\ batchStart' = [batchStart EXCEPT ![r] = @ + concurrencyLimit]
                   /\ runPc' = [runPc EXCEPT ![r] =
                                   IF batchStart[r] + concurrencyLimit < Len(tasks)
                                   THEN "batch" ELSE "stats"]
                   /\ UNCHANGED <<processingRef, isProcessing, runIndex, subtasks>>
    /\ UNCHANGED <<toCheck, skippedSubtasks, pauseRequested, pausedRuns, lastCheck, startsLeft>>
    /\ UNCHANGED nonRunVars

\* getStorageStats settles (a failure is logged) and processProperty returns true
StorageStats(r) ==
    /\ runPc[r] = "stats"
    /\ ReturnToLoop(r, TRUE)
    /\ UNCHANGED <<toCheck, batchStart, skippedSubtasks, pauseRequested, pausedRuns, lastCheck,
                   startsLeft>>
    /\ UNCHANGED nonRunVars

NextRun ==
    \/ HandleStartTask
    \/ HandlePauseTask
    \/ \E r \in Runs : GetReferenceProperties(r)
    \/ \E r \in Runs : FindProductTypes(r)
    \/ \E r \in Runs : CheckSite(r)
    \/ \E r \in Runs, j \in 1..Len(ProductTypesOf("color")) : SubtaskSchema(r, j)
    \/ \E r \in Runs, j \in 1..Len(ProductTypesOf("color")) : SubtaskAi(r, j)
    \/ \E r \in Runs, j \in 1..Len(ProductTypesOf("color")) : SubtaskSave(r, j)
    \/ \E r \in Runs : BatchSettled(r)
    \/ \E r \in Runs : StorageStats(r)

SpecRun == InitRun /\ [][NextRun]_vars

\* a session in which the operator may press Start twice (the button is
\* enabled whenever isProcessing is false), on a store that holds a completed
\* color record for every site but US: each attribute has one subtask
RestartStore ==
    {StoredResult(site, "SHOES", "color", "[{\"value\":\"red\"}]", "completed", 0) :
        site \in {"DE", "FR", "UK"}}

InitRestart ==
    /\ store = RestartStore
    /\ now = 0
    /\ lastOp = [op |-> "none"]
    /\ written = {}
    /\ nOps = 0
    /\ RLIdle
    /\ processingRef = FALSE
    /\ isProcessing = FALSE
    /\ runPc = [r \in Runs |-> "idle"]
    /\ runIndex = [r \in Runs |-> 0]
    /\ toCheck = [r \in Runs |-> <<>>]
    /\ subtasks = [r \in Runs |-> <<>>]
    /\ batchStart = [r \in Runs |-> 0]
    /\ skippedSubtasks = [r \in Runs |-> 0]
    /\ pauseRequested = FALSE
    /\ pausedRuns = {}
    /\ lastCheck = [op |-> "none"]
    /\ startsLeft = Cardinality(Runs)
    /\ RepairIdle
    /\ LimitedIdle
    /\ StripIdle
    /\ CacheIdle
    /\ SyncAllIdle
    /\ GroupIdle
    /\ ResolveIdle
    /\ AttemptIdle
    /\ CleaningIdle
    /\ RetryIdle
    /\ SyncIdle
    /\ ValidateIdle

SpecRestart == InitRestart /\ [][NextRun]_vars

(***************************************************************************)
(* The Data Repair Engine applied to a stored text and to its own output   *)
(***************************************************************************)
\* what the texts are made of: two arrays, other text, a quote and an
\* escaped quote, an object holding marketplace_id, the array delimiters
RepairFragments ==
    {"[1]", "[\"a : b\"]", "x", " ", "\"", "\\\"",
     "{\"marketplace_id\":\"U\"}", ",", "[", "]"}

RECURSIVE Concat(_)
Concat(parts) == IF parts = <<>> THEN "" ELSE Head(parts) \o Concat(Tail(parts))

InitRepair ==
    /\ inputParts \in UNION {[1..n -> RepairFragments] : n \in 1..MaxParts}
    /\ Len(Concat(inputParts)) <= MaxText
    /\ storedText = Concat(inputParts)
    /\ repairResult = <<>>
    /\ RunIdle
    /\ LimitedIdle
    /\ StripIdle
    /\ CacheIdle
    /\ SyncAllIdle
    /\ GroupIdle
    /\ ResolveIdle
    /\ AttemptIdle
    /\ CleaningIdle
    /\ RetryIdle
    /\ SyncIdle
    /\ ValidateIdle
    /\ store = {}
    /\ now = 0
    /\ lastOp = [op |-> "none"]
    /\ written = {}
    /\ nOps = 0
    /\ queue = <<>>
    /\ runningCount = 0
    /\ maxConcurrent = AI_API_RATE_LIMIT
    /\ callerPc = [c \in Callers |-> "idle"]
    /\ microtasks = <<>>
    /\ nCalled = 0
    /\ lastWake = <<0, FALSE>>

\* ensureCompressedJson(result.aiGeneratedData) on a stored text
Repair ==
    /\ repairResult = <<>>
    /\ repairResult' = <<ensureCompressedJson(storedText)>>
    /\ UNCHANGED <<inputParts, storedText>>
    /\ UNCHANGED nonRepairVars

\* ensureCompressedJson on the text a cleanup wrote back
RepairAgain ==
    /\ Len(repairResult) = 1
    /\ repairResult' = Append(repairResult,
                              ensureCompressedJson(repairResult[1].compressed))
    /\ UNCHANGED <<inputParts, storedText>>
    /\ UNCHANGED nonRepairVars

NextRepair == Repair \/ RepairAgain

SpecRepair == InitRepair /\ [][NextRepair]_vars

(***************************************************************************)
(* validateData called on its own (utils/valida.js)                        *)
(***************************************************************************)
\* the objects with and without the members color and size, an array and a
\* string
ValidationData ==
    {JObj(color \o size) :
        color \in {<<>>, <<JMember("color", JStr("red"))>>,
                   <<JMember("color", JNum("1"))>>},
        size \in {<<>>, <<JMember("size", JStr("L"))>>}}
    \cup {JArr(<<>>), JStr("red")}

\* schemas with and without a type, required members and typed properties
ValidationSchemas ==
    {Schema(type, required, properties, <<>>, 0) :
        type \in {"any", "object"},
        required \in {<<>>, <<"color">>, <<"color", "size">>},
        properties \in {<<>>, <<<<"color", Schema("string", <<>>, <<>>, <<>>, 0)>>>>}}

InitValidate ==
    /\ valData \in ValidationData
    /\ valSchema \in ValidationSchemas
    /\ valErrors = <<>>
    /\ RLIdle
    /\ StoreIdle
    /\ RunIdle
    /\ RepairIdle
    /\ LimitedIdle
    /\ StripIdle
    /\ CacheIdle
    /\ SyncAllIdle
    /\ GroupIdle
    /\ ResolveIdle
    /\ AttemptIdle
    /\ CleaningIdle
    /\ RetryIdle
    /\ SyncIdle

\* const validationErrors = validateData(dataToValidate, processedSchema)
Validate ==
    /\ valErrors = <<>>
    /\ valErrors' = <<validateData(valData, valSchema)>>
    /\ UNCHANGED <<valData, valSchema, nonValidateVars>>

NextValidate == Validate

SpecValidate == InitValidate /\ [][NextValidate]_vars

(***************************************************************************)
(* Sync by property (services/sync.ts)                                     *)
(***************************************************************************)
\* the records a store may hold when a sync starts: two product types of one
\* site with different data, two sites with the same data, a failed record
\* and a record of another property
SyncPool ==
    {StoredResult("US", "SHOES", "color", "[{\"value\":\"red\"}]", "completed", 1),
     StoredResult("US", "BOOTS", "color", "[{\"value\":\"blue\"}]", "completed", 2),
     StoredResult("US", "SANDALS", "color", "[{\"value\":\"red\"}]", "completed", 3),
     StoredResult("UK", "SHOES", "color", "[{\"value\":\"red\"}]", "completed", 4),
     StoredResult("DE", "SHOES", "color", "[{\"value\":\"blue\"}]", "completed", 4),
     StoredResult("DE", "BOOTS", "color", "[{\"value\":\"green\"}]", "failed", 5),
     StoredResult("FR", "SHOES", "color", "", "failed", 6),
     StoredResult("UK", "SHOES", "size", "[{\"value\":\"L\"}]", "completed", 7)}

SyncStores == SUBSET SyncPool

\* results.sort((a, b) => b.timestamp - a.timestamp) on the records of an
\* index read
RECURSIVE sortByTimestampDesc(_)
sortByTimestampDesc(records) ==
    IF records = {} THEN <<>>
    ELSE <<toKeep(records)>> \o sortByTimestampDesc(records \ {toKeep(records)})

\* getResultsByProperty: index 'property', newest first
getResultsByProperty(property) ==
    sortByTimestampDesc({r \in store : r.property = property})

\* the keys of a Map, or the members of a Set, in insertion order
RECURSIVE Distinct(_)
Distinct(seq) ==
    IF seq = <<>> THEN <<>>
    ELSE LET rest == Distinct(SubSeq(seq, 1, Len(seq) - 1))
             last == seq[Len(seq)]
         IN  IF \E n \in 1..Len(rest) : rest[n] = last THEN rest
             ELSE Append(rest, last)

\* a filter that takes the results of the property whatever their status
validResultsAnyStatus(propertyName, results) ==
    SelectSeq(results, LAMBDA r : r.property = propertyName
                                   /\ r.aiGeneratedData # "")

\* groupResultsByProperty: the filter
validResults(propertyName, results) ==
    SelectSeq(results, LAMBDA r : r.status = "completed"
                                   /\ r.property = propertyName
                                   /\ r.aiGeneratedData # "")

\* the sites of the results of one group
groupSites(valid, aiDataKey) ==
    LET groupResults == SelectSeq(valid, LAMBDA r : r.aiGeneratedData = aiDataKey)
    IN  Distinct([n \in 1..Len(groupResults) |-> groupResults[n].site])

\* one GroupedSyncData per key of groupedByAiData
groupsOf(propertyName, valid, keys) ==
    [g \in 1..Len(keys) |->
        [type |-> 2, sites |-> groupSites(valid, keys[g]),
         attributeName |-> propertyName, attributeValue |-> keys[g],
         codeAdapter |-> FALSE, applicableAttributeType |-> 3]]

groupedByAiData(propertyName, valid) ==
    groupsOf(propertyName, valid,
             Distinct([n \in 1..Len(valid) |-> valid[n].aiGeneratedData]))

groupResultsByProperty(propertyName, results) ==
    groupedByAiData(propertyName, validResults(propertyName, results))

\* Array.prototype.join(', ')
RECURSIVE Join(_)
Join(seq) ==
    IF seq = <<>> THEN ""
    ELSE IF Len(seq) = 1 THEN seq[1]
    ELSE seq[1] \o ", " \o Join(Tail(seq))

\* what the request of a group comes to: a response of status 200, another
\* 2xx response, a response axios rejects, or no response
Responses == {"200", "201", "500", "network"}

\* an entry of BatchSyncResult.results (the messages are Chinese in the code)
SyncResult(property, site, success, message, error) ==
    [property |-> property, site |-> site, productType |-> "",
     success |-> success, message |-> message, error |-> error]

\* the entry syncGroupedData pushes for a group
groupOutcome(groupData, response) ==
    IF response = "200"
    THEN SyncResult(groupData.attributeName, Join(groupData.sites), TRUE,
                    "sync succeeded", "")
    ELSE SyncResult(groupData.attributeName, Join(groupData.sites), FALSE,
                    "sync failed",
                    IF response = "201" THEN "server returned status code: 201"
                    ELSE IF response = "500"
                    THEN "Request failed with status code 500"
                    ELSE "Network Error")

InitSync ==
    /\ store \in SyncStores
    /\ now = 7
    /\ lastOp = [op |-> "none"]
    /\ written = {}
    /\ nOps = 0
    /\ SyncIdle
    /\ RLIdle
    /\ RunIdle
    /\ RepairIdle
    /\ LimitedIdle
    /\ StripIdle
    /\ CacheIdle
    /\ SyncAllIdle
    /\ GroupIdle
    /\ ResolveIdle
    /\ AttemptIdle
    /\ CleaningIdle
    /\ RetryIdle
    /\ ValidateIdle

\* syncByProperty up to the first request: the read of the store, the
\* grouping, and the early returns
SyncByProperty ==
    /\ syncPc = "idle"
    /\ \E propertyName \in {"color", "size"}, readOk \in BOOLEAN :
          /\ syncProperty' = propertyName
          /\ IF ~readOk
             THEN /\ batchResult' =
                        <<[total |-> 0, success |-> 0, failed |-> 1,
                           results |-> <<SyncResult(propertyName, "", FALSE,
                               "sync failed",
                               "Failed to get results by property")>>]>>
                  /\ syncPc' = "done"
                  /\ UNCHANGED <<groupedData, syncIndex, isSyncing>>
             ELSE LET groups == groupResultsByProperty(propertyName,
                                    getResultsByProperty(propertyName)) IN
                  /\ groupedData' = groups
                  /\ IF Len(groups) = 0
                     THEN /\ batchResult' =
                                <<[total |-> 0, success |-> 0, failed |-> 0,
                                   results |-> <<SyncResult(propertyName, "",
                                       FALSE, "no data to sync",
                                       "no valid verification result found")>>]>>
                          /\ syncPc' = "done"
                          /\ UNCHANGED <<syncIndex, isSyncing>>
                     ELSE /\ batchResult' =
                                <<[total |-> Len(groups), success |-> 0,
                                   failed |-> 0, results |-> <<>>]>>
                          /\ isSyncing' = TRUE
                          /\ syncIndex' = 1
                          /\ syncPc' = "posting"
    /\ UNCHANGED nonSyncVars

\* one round of syncGroupedData's loop: the request of group i and the entry
\* pushed for it; after the last group isSyncing is reset and the result
\* returned
PostGroup ==
    /\ syncPc = "posting"
    /\ \E response \in Responses :
          batchResult' =
              <<[total |-> batchResult[1].total,
                 success |-> batchResult[1].success
                                + (IF response = "200" THEN 1 ELSE 0),
                 failed |-> batchResult[1].failed
                                + (IF response = "200" THEN 0 ELSE 1),
                 results |-> Append(batchResult[1].results,
                                groupOutcome(groupedData[syncIndex], response))]>>
    /\ IF syncIndex = Len(groupedData)
       THEN /\ isSyncing' = FALSE
            /\ syncPc' = "done"
            /\ UNCHANGED syncIndex
       ELSE /\ syncIndex' = syncIndex + 1
            /\ UNCHANGED <<isSyncing, syncPc>>
    /\ UNCHANGED <<syncProperty, groupedData, nonSyncVars>>

NextSync == SyncByProperty \/ PostGroup

SpecSync == InitSync /\ [][NextSync]_vars

(***************************************************************************)
(* Retry of the failed results (handleRetryFailedResults)                  *)
(***************************************************************************)
\* the stores a retry may start on: nothing failed, two failed records beside
\* a completed one, and four failed records (two batches) beside it
RetryStores ==
    LET completed == StoredResult("DE", "SHOES", "color", "\"[]\"", "completed", 1)
        failed(site, property) ==
            [StoredResult(site, "SHOES", property, "", "failed", 2)
                EXCEPT !.error = "Generation failed"]
    IN  { {completed},
          {completed, failed("UK", "color"), failed("US", "material")},
          {completed, failed("FR", "color"), failed("UK", "color"),
           failed("US", "color"), failed("US", "material")} }

\* the records of an index read, in the order of their ids
RECURSIVE sortById(_)
sortById(records) ==
    IF records = {} THEN <<>>
    ELSE LET first == CHOOSE r \in records :
                          \A o \in records \ {r} : IdBefore(r, o)
         IN  <<first>> \o sortById(records \ {first})

\* a read of every record whatever its status
getAllStoredResults == sortById(store)

\* getFailedResults: index 'status', getAll('failed')
getFailedResults == sortById({r \in store : r.status = "failed"})

\* {...existingResult, ...updates}
Merge(existingResult, updates) ==
    [f \in DOMAIN existingResult \cup DOMAIN updates |->
        IF f \in DOMAIN updates THEN updates[f] ELSE existingResult[f]]

\* updateResult: the record of the id is read; without one the call rejects
\* ('Result not found'), else the merged record is put with a new timestamp
updateResult(site, productType, property, updates, time) ==
    LET id == generateId(site, productType, property)
        existingResult == get(store, id)
    IN  IF existingResult = Null THEN [ok |-> FALSE, records |-> store]
        ELSE [ok |-> TRUE,
              records |-> put(store, [Merge(existingResult, updates)
                                         EXCEPT !.id = id, !.timestamp = time])]

\* finalStatus and finalError after the validation of the text generateJson
\* returned (the messages are rendered in English)
retryValidation(property, aiData) ==
    LET aiDataArray == JSONparse(aiData)
        validationErrors ==
            validateData(JObj(<<JMember(property, aiDataArray.v)>>),
                         processedSchema(property))
    IN  IF ~aiDataArray.ok
        THEN [status |-> "failed",
              error |-> "retry validation exception: SyntaxError"]
        ELSE IF validationErrors.type # "undefined" /\ Len(validationErrors.list) > 0
        THEN [status |-> "failed",
              error |-> "retry validation failed: "
                        \o errorDetails(validationErrors.list, 1)]
        ELSE [status |-> "completed", error |-> ""]

\* what a callback hands to updateResult after generateJson settled with
\* `reply`: the updates of its catch block when generateJson threw, else the
\* new data with finalStatus and finalError
retryUpdates ==
    [property \in Range(AdapterProperties) |->
        [reply \in AiReplies(property) |->
            LET aiData == generateJson(reply) IN
            IF ~aiData.ok
            THEN [thrown |-> TRUE,
                  updates |-> [error |-> "retry failed: Generation failed",
                               status |-> "failed"]]
            ELSE [thrown |-> FALSE,
                  updates |-> [aiGeneratedData |-> JSONstringify(JStr(aiData.text)),
                               status |-> retryValidation(property, aiData.text).status,
                               error |-> retryValidation(property, aiData.text).error]]]]

\* const batchSize = 3
batchSize == 3

\* failedResults.slice(i, i + batchSize), as the positions of its members
RetryBatch(i) ==
    {j \in 1..Len(failedResults) : i < j /\ j <= i + batchSize}

\* the callback of one failed result before it runs
RetryTask(failedResult, pc) ==
    [site |-> failedResult.site, productType |-> failedResult.productType,
     property |-> failedResult.property, pc |-> pc,
     updates |-> [status |-> "failed"]]

InitRetry ==
    /\ store \in RetryStores
    /\ now = 3
    /\ lastOp = [op |-> "none"]
    /\ written = {}
    /\ nOps = 0
    /\ RetryIdle
    /\ RLIdle
    /\ RunIdle
    /\ RepairIdle
    /\ LimitedIdle
    /\ StripIdle
    /\ CacheIdle
    /\ SyncAllIdle
    /\ GroupIdle
    /\ ResolveIdle
    /\ AttemptIdle
    /\ CleaningIdle
    /\ ValidateIdle
    /\ SyncIdle

\* handleRetryFailedResults up to the first batch: the failed results are
\* read; with none the handler returns, else the callbacks of the first
\* batch start
HandleRetryFailedResults ==
    /\ retryPc = "idle"
    /\ startStore' = store
    /\ failedResults' = getFailedResults
    /\ IF getFailedResults = <<>>
       THEN /\ retryPc' = "done"
            /\ isRetryingFailed' = FALSE
            /\ retryTasks' = <<>>
       ELSE /\ retryPc' = "batch"
            /\ isRetryingFailed' = TRUE
            /\ retryTasks' =
                  [j \in 1..Len(getFailedResults) |->
                      RetryTask(getFailedResults[j],
                                IF j <= batchSize THEN "schema" ELSE "waiting")]
    /\ UNCHANGED <<retryBatchStart, apiCalls, nonRetryVars>>

\* a callback's getSchema settles: the schema lacks the property (the
\* callback returns) or getReferenceProperties and generateJson are called.
\* A getSchema whose requests all fail settles never.
RetrySchema(j) ==
    /\ j \in 1..Len(retryTasks)
    /\ retryTasks[j].pc = "schema"
    /\ \E outcome \in {"missing", "ok"} :
          retryTasks' = [retryTasks EXCEPT ![j].pc =
                            IF outcome = "missing" THEN "done" ELSE "ai"]
    /\ apiCalls' = apiCalls \cup {"getSchema"}
    /\ UNCHANGED <<retryPc, isRetryingFailed, failedResults, retryBatchStart,
                   startStore, nonRetryVars>>

\* a callback's getReferenceProperties and generateJson settle, and the text
\* is validated
RetryAi(j) ==
    /\ j \in 1..Len(retryTasks)
    /\ retryTasks[j].pc = "ai"
    /\ \E reply \in AiReplies(retryTasks[j].property) :
          LET result == retryUpdates[retryTasks[j].property][reply] IN
          retryTasks' = [retryTasks EXCEPT ![j] =
              [@ EXCEPT !.pc = IF result.thrown THEN "catch" ELSE "update",
                        !.updates = result.updates]]
    /\ apiCalls' = apiCalls \cup {"getReferenceProperties", "generateJson"}
    /\ UNCHANGED <<retryPc, isRetryingFailed, failedResults, retryBatchStart,
                   startStore, nonRetryVars>>

\* a callback's updateResult settles: the record is written, or the call
\* rejects and the catch block is entered
RetryUpdate(j) ==
    /\ j \in 1..Len(retryTasks)
    /\ retryTasks[j].pc = "update"
    /\ LET t == retryTasks[j]
           updated == updateResult(t.site, t.productType, t.property, t.updates, now)
       IN  /\ store' = updated.records
           /\ retryTasks' = [retryTasks EXCEPT ![j] =
                 IF updated.ok THEN [t EXCEPT !.pc = "done"]
                 ELSE [t EXCEPT !.pc = "catch",
                         !.updates = [error |-> "retry failed: Result not found",
                                      status |-> "failed"]]]
           /\ lastOp' = [op |-> "update", key |-> <<t.site, t.productType, t.property>>,
                         ok |-> updated.ok]
    /\ UNCHANGED <<now, written, nOps>>
    /\ UNCHANGED <<retryPc, isRetryingFailed, failedResults, retryBatchStart,
                   apiCalls, startStore>>
    /\ UNCHANGED nonRetryStoreVars

\* the updateResult of a callback's catch block settles: the record gets the
\* error, or the call rejects and with it the callback
RetryCatch(j) ==
    /\ j \in 1..Len(retryTasks)
    /\ retryTasks[j].pc = "catch"
    /\ LET t == retryTasks[j]
           updated == updateResult(t.site, t.productType, t.property, t.updates, now)
       IN  /\ store' = updated.records
           /\ retryTasks' = [retryTasks EXCEPT ![j].pc =
                                IF updated.ok THEN "done" ELSE "rejected"]
           /\ lastOp' = [op |-> "update", key |-> <<t.site, t.productType, t.property>>,
                         ok |-> updated.ok]
    /\ UNCHANGED <<now, written, nOps>>
    /\ UNCHANGED <<retryPc, isRetryingFailed, failedResults, retryBatchStart,
                   apiCalls, startStore>>
    /\ UNCHANGED nonRetryStoreVars

\* `await Promise.all(...)` settles: the next batch starts, or the statistics
\* are read and the handler ends; a rejection goes to the outer catch
RetryBatchSettled ==
    /\ retryPc = "batch"
    /\ LET batch == RetryBatch(retryBatchStart) IN
       IF \E j \in batch : retryTasks[j].pc = "rejected"
       THEN /\ retryPc' = "done"
            /\ isRetryingFailed' = FALSE
            /\ UNCHANGED <<retryTasks, retryBatchStart>>
       ELSE /\ \A j \in batch : retryTasks[j].pc = "done"
            /\ IF retryBatchStart + batchSize < Len(failedResults)
               THEN /\ retryBatchStart' = retryBatchStart + batchSize
                    /\ retryTasks' =
                          [j \in 1..Len(retryTasks) |->
                              IF j \in RetryBatch(retryBatchStart + batchSize)
                              THEN [retryTasks[j] EXCEPT !.pc = "schema"]
                              ELSE retryTasks[j]]
                    /\ UNCHANGED <<retryPc, isRetryingFailed>>
               ELSE /\ retryPc' = "done"
                    /\ isRetryingFailed' = FALSE
                    /\ UNCHANGED <<retryTasks, retryBatchStart>>
    /\ UNCHANGED <<failedResults, apiCalls, startStore, nonRetryVars>>

\* the operator deletes a stored result on the results page while the retry
\* runs (deleteResultById), once
DeleteStoredResult ==
    /\ retryPc = "batch"
    /\ nOps = 0
    /\ \E r \in store :
          /\ store' = deleteResultById(store, r.id)
          /\ lastOp' = [op |-> "delete", key |-> <<r.site, r.productType, r.property>>]
    /\ nOps' = 1
    /\ UNCHANGED <<now, written>>
    /\ UNCHANGED retryVars
    /\ UNCHANGED nonRetryStoreVars

NextRetry ==
    \/ HandleRetryFailedResults
    \/ \E j \in 1..4 : RetrySchema(j) \/ RetryAi(j) \/ RetryUpdate(j) \/ RetryCatch(j)
    \/ RetryBatchSettled
    \/ DeleteStoredResult

SpecRetry == InitRetry /\ [][NextRetry]_vars

(***************************************************************************)
(* Cleanup (handleDataCleaning)                                            *)
(***************************************************************************)
\* the response texts behind the records a cleanup finds: an array that fits
\* the schema, an empty array (the schema asks for one item at least), no JSON
CleaningResponses == {"[{\"value\":\"leather\"}]", "[]", "leather"}

\* the records processProperty stored for these texts, for US-SHOES at time 1
StoredForResponses ==
    {[StoredResult("US", "SHOES", "material", result.aiGeneratedData,
                   result.status, 1) EXCEPT !.error = result.error] :
        result \in {taskResult("material",
                               generateJson([ok |-> TRUE, text |-> text]).text) :
                       text \in CleaningResponses}}

\* the same record of another site, product type and time
RecordAt(r, site, productType, time) ==
    [r EXCEPT !.id = generateId(site, productType, r.property),
              !.site = site, !.productType = productType, !.timestamp = time]

\* the record processProperty stored when generateJson threw
RecordOfFailure(site, productType, time) ==
    [StoredResult(site, productType, "material", "", "failed", time)
        EXCEPT !.error = "Generation failed"]

\* the stores a cleanup may start on: for US and UK no record or one of the
\* records above, and for US a second product type or not
StoresOf(stored) ==
    {us \cup uk \cup second :
        us \in {{}, {RecordOfFailure("US", "SHOES", 1)}}
                  \cup {{r} : r \in stored},
        uk \in {{}, {RecordOfFailure("UK", "SHOES", 2)}}
                  \cup {{RecordAt(r, "UK", "SHOES", 2)} : r \in stored},
        second \in {{}} \cup {{RecordAt(r, "US", "BOOTS", 3)} :
                                r \in {c \in stored : c.status = "completed"}}}

\* (the stored records are computed once)
CleaningStores == UNION {StoresOf(stored) : stored \in {StoredForResponses}}

\* updateData when the data was modified, and when it was not
cleanedData(compressionResult) ==
    IF compressionResult.wasModified
    THEN [aiGeneratedData |-> compressionResult.compressed]
    ELSE <<>>

\* a cleanup that looks at the status only
updatesIgnoringArray(result, compressionResult) ==
    IF result.status # "completed"
    THEN <<[aiGeneratedData |-> compressionResult.compressed,
            status |-> "completed", error |-> ""]>>
    ELSE <<>>

\* the updates a callback hands to updateResult for a stored result, from
\* what ensureCompressedJson returned; none when the result needs no update
updatesOf(result, compressionResult) ==
    IF ~compressionResult.isValidArray
    THEN <<[status |-> "failed", error |-> "Array validation failed",
            aiGeneratedData |-> compressionResult.compressed]>>
    ELSE IF result.status # "completed"
    THEN <<Merge([aiGeneratedData |-> result.aiGeneratedData,
                  status |-> "completed", error |-> ""],
                 cleanedData(compressionResult))>>
    ELSE IF compressionResult.wasModified
    THEN <<cleanedData(compressionResult)>>
    ELSE <<>>

cleaningUpdates(result) ==
    IF result.aiGeneratedData = "" THEN <<>>
    ELSE updatesOf(result, ensureCompressedJson(result.aiGeneratedData))

\* the store after a callback's updateResult, if it makes one
cleanedStore(result, updates) ==
    IF updates = <<>> THEN store
    ELSE updateResult(result.site, result.productType, result.property,
                      updates[1], now).records

InitCleaning ==
    /\ store \in CleaningStores
    /\ now = 4
    /\ lastOp = [op |-> "none"]
    /\ written = {}
    /\ nOps = 0
    /\ CleaningIdle
    /\ RLIdle
    /\ RunIdle
    /\ RepairIdle
    /\ LimitedIdle
    /\ StripIdle
    /\ CacheIdle
    /\ SyncAllIdle
    /\ GroupIdle
    /\ ResolveIdle
    /\ AttemptIdle
    /\ ValidateIdle
    /\ SyncIdle
    /\ RetryIdle

\* handleDataCleaning up to its batch: the duplicates are removed, every
\* result is read, and with none the handler returns
HandleDataCleaning ==
    /\ cleaningPc = "idle"
    /\ cleaningStart' = store
    /\ store' = {r \in store : r.id \notin {d.id : d \in toRemove}}
    /\ lastOp' = [op |-> "dedup",
                  totalDuplicateGroups |-> Cardinality(findDuplicateSitePropertyRecords),
                  totalRecordsRemoved |-> Cardinality(toRemove),
                  removedTimes |-> {d.timestamp : d \in toRemove},
                  removedStatuses |-> {d.status : d \in toRemove}]
    /\ allResults' = sortById(store')
    /\ cleaningTasks' = [j \in 1..Len(allResults') |-> "run"]
    /\ IF store' = {}
       THEN cleaningPc' = "done" /\ isDataCleaning' = FALSE
       ELSE cleaningPc' = "batch" /\ isDataCleaning' = TRUE
    /\ UNCHANGED <<now, written, nOps>>
    /\ UNCHANGED nonCleaningStoreVars

\* the callback of one result: a result without data is skipped; the data is
\* put through ensureCompressedJson and the record updated: marked failed
\* when the data is no array, else given the cleaned data and the status
\* completed
CleanResult(j) ==
    /\ cleaningPc = "batch"
    /\ j \in 1..Len(cleaningTasks)
    /\ cleaningTasks[j] = "run"
    /\ cleaningTasks' = [cleaningTasks EXCEPT ![j] = "done"]
    /\ store' = cleanedStore(allResults[j], cleaningUpdates(allResults[j]))
    /\ lastOp' = [op |-> "clean", id |-> allResults[j].id]
    /\ UNCHANGED <<now, written, nOps>>
    /\ UNCHANGED <<cleaningPc, isDataCleaning, allResults, cleaningStart>>
    /\ UNCHANGED nonCleaningStoreVars

\* `await Promise.all(...)` settles, the statistics are read and the handler
\* ends
CleaningBatchSettled ==
    /\ cleaningPc = "batch"
    /\ \A j \in 1..Len(cleaningTasks) : cleaningTasks[j] = "done"
    /\ cleaningPc' = "done"
    /\ isDataCleaning' = FALSE
    /\ UNCHANGED <<allResults, cleaningTasks, cleaningStart, nonCleaningVars>>

NextCleaning ==
    \/ HandleDataCleaning
    \/ \E j \in 1..3 : CleanResult(j)
    \/ CleaningBatchSettled

SpecCleaning == InitCleaning /\ [][NextCleaning]_vars

(***************************************************************************)
(* One subtask, request by request (getSchema, executeWithRetry)           *)
(***************************************************************************)
\* getSchema(site, productType, retryCount = 0, maxRetries = 3) and
\* executeWithRetry(retryCount = 0, maxRetries = 3)
maxRetries == 3

\* let retryDelay = 60
defaultRetryDelay == 60

Digits == <<"0", "1", "2", "3", "4", "5", "6", "7", "8", "9">>

\* parseInt(digits, 10)
RECURSIVE parseInt(_, _)
parseInt(digits, value) ==
    IF digits = "" THEN value
    ELSE parseInt(Tail(digits),
                  10 * value + (CHOOSE d \in 0..9 : Digits[d + 1] = Ch(digits, 1)))

\* where detail.retryDelay.match(/(\d+)s/) matches: the leftmost digits that
\* an s follows; 0 when there is no match
delayMatch(text) ==
    LET starts == {i \in 1..Len(text) :
                      /\ IsDigit(Ch(text, i))
                      /\ Ch(text, ParseDigits(text, i)) = "s"}
    IN  IF starts = {} THEN 0 ELSE CHOOSE i \in starts : \A k \in starts : i <= k

\* the seconds to wait after a 429: those of the RetryInfo detail when the
\* error has one that matches, else the default
retryDelayOf(retryInfo) ==
    IF delayMatch(retryInfo) = 0 THEN defaultRetryDelay
    ELSE parseInt(SubSeq(retryInfo, delayMatch(retryInfo),
                         ParseDigits(retryInfo, delayMatch(retryInfo)) - 1), 0)

\* what a generateContent request ends with: a response text, an error that
\* is no 429, or a 429 whose RetryInfo detail has this retryDelay ("" when
\* the error has no such detail)
BackendReplies ==
    [kind : {"response"}, text : AiResponses("color"), retryInfo : {""}]
        \cup [kind : {"error"}, text : {""}, retryInfo : {""}]
        \cup [kind : {"429"}, text : {""}, retryInfo : {"", "31s", "retry in 5s"}]

\* Math.pow(2, retryCount)
RECURSIVE pow2(_)
pow2(n) == IF n = 0 THEN 1 ELSE 2 * pow2(n - 1)

\* the subtask's result when generateJson threw with this message
failedResult(errorMessage) ==
    [status |-> "failed", aiGeneratedData |-> "", error |-> errorMessage]

\* the subtask's result on each response text: generateJson returns it as
\* JSON text and the subtask validates it
resultsOfResponses ==
    [text \in AiResponses("color") |->
        taskResult("color", generateJson([ok |-> TRUE, text |-> text]).text)]

\* the subtask's result when the last request of generateJson ended with
\* this reply: the error is wrapped by generateJson and caught by the
\* subtask, the response is validated
resultOfReply(reply) ==
    IF reply.kind = "429"
    THEN failedResult("Generation failed: Rate limit exceeded (429). Maximum retry attempts reached")
    ELSE IF reply.kind = "error"
    THEN failedResult("Generation failed")
    ELSE responseResults[reply.text]

InitAttempt ==
    /\ store \in InitialStores
    /\ now = 1
    /\ lastOp = [op |-> "none"]
    /\ written = {}
    /\ nOps = 0
    /\ attemptPc = "idle"
    /\ schemaCache \in BOOLEAN
    /\ schemaRetryCount = 0
    /\ aiRetryCount = 0
    /\ schemaRequests = 0
    /\ aiRequests = 0
    /\ retryDelay = 0
    /\ waited = <<>>
    /\ attemptResult = <<>>
    /\ responseResults = resultsOfResponses
    /\ RLIdle
    /\ RunIdle
    /\ RepairIdle
    /\ LimitedIdle
    /\ StripIdle
    /\ CacheIdle
    /\ SyncAllIdle
    /\ GroupIdle
    /\ ResolveIdle
    /\ ValidateIdle
    /\ SyncIdle
    /\ RetryIdle
    /\ CleaningIdle

\* the subtask of US-SHOES-color starts: getSchema returns the cached schema
\* and generateJson sends its first request, or getSchema sends its first
\* request
AttemptStart ==
    /\ attemptPc = "idle"
    /\ IF schemaCache
       THEN /\ attemptPc' = "ai"
            /\ aiRequests' = aiRequests + 1
            /\ UNCHANGED schemaRequests
       ELSE /\ attemptPc' = "schema"
            /\ schemaRequests' = schemaRequests + 1
            /\ UNCHANGED aiRequests
    /\ UNCHANGED <<schemaCache, schemaRetryCount, aiRetryCount, retryDelay, waited,
                   attemptResult>>
    /\ UNCHANGED <<responseResults, nonAttemptVars>>

\* the schema request of getSchema ends.  With a schema, it is cached and
\* returned, and the subtask returns a failed result when the property is
\* not in it, else calls generateJson.  With an error and retries left, a
\* timer is set.  With an error and none left getSchema throws, in the
\* callback of the timer that called it: nothing catches that, and the
\* promise the subtask awaits is settled by nothing.
SchemaRequestEnds ==
    /\ attemptPc = "schema"
    /\ \E outcome \in {"error", "missing", "ok"} :
        IF outcome = "error"
        THEN /\ attemptPc' = IF schemaRetryCount < maxRetries THEN "schemaTimer"
                             ELSE "unsettled"
             /\ UNCHANGED <<schemaCache, aiRequests, attemptResult>>
        ELSE IF outcome = "missing"
        THEN /\ attemptPc' = "done"
             /\ schemaCache' = TRUE
             /\ attemptResult' = failedResult("Property not found in schema")
             /\ UNCHANGED aiRequests
        ELSE /\ attemptPc' = "ai"
             /\ schemaCache' = TRUE
             /\ aiRequests' = aiRequests + 1
             /\ UNCHANGED attemptResult
    /\ UNCHANGED <<schemaRetryCount, aiRetryCount, schemaRequests, retryDelay, waited>>
    /\ UNCHANGED <<responseResults, nonAttemptVars>>

\* the timer of getSchema fires after 2^retryCount seconds and getSchema is
\* called with retryCount + 1
SchemaTimer ==
    /\ attemptPc = "schemaTimer"
    /\ waited' = Append(waited, pow2(schemaRetryCount))
    /\ schemaRetryCount' = schemaRetryCount + 1
    /\ schemaRequests' = schemaRequests + 1
    /\ attemptPc' = "schema"
    /\ UNCHANGED <<schemaCache, aiRetryCount, aiRequests, retryDelay, attemptResult>>
    /\ UNCHANGED <<responseResults, nonAttemptVars>>

\* the generateContent request of executeWithRetry ends.  A response is
\* validated and handed to saveResult.  A 429 with retries left sets a
\* timer; a 429 with none left, and any other error, is thrown, wrapped by
\* generateJson and caught by the subtask, which hands a failed result to
\* saveResult.
AiRequestEnds ==
    /\ attemptPc = "ai"
    /\ \E reply \in BackendReplies :
        IF reply.kind = "429" /\ aiRetryCount < maxRetries
        THEN /\ attemptPc' = "aiTimer"
             /\ retryDelay' = retryDelayOf(reply.retryInfo)
             /\ UNCHANGED attemptResult
        ELSE /\ attemptPc' = "save"
             /\ attemptResult' = resultOfReply(reply)
             /\ UNCHANGED retryDelay
    /\ UNCHANGED <<schemaCache, schemaRetryCount, aiRetryCount, schemaRequests,
                   aiRequests, waited>>
    /\ UNCHANGED <<responseResults, nonAttemptVars>>

\* the timer of executeWithRetry fires after retryDelay seconds and
\* executeWithRetry is called with retryCount + 1
AiTimer ==
    /\ attemptPc = "aiTimer"
    /\ waited' = Append(waited, retryDelay)
    /\ aiRetryCount' = aiRetryCount + 1
    /\ aiRequests' = aiRequests + 1
    /\ attemptPc' = "ai"
    /\ UNCHANGED <<schemaCache, schemaRetryCount, schemaRequests, retryDelay,
                   attemptResult>>
    /\ UNCHANGED <<responseResults, nonAttemptVars>>

\* saveResult settles, the record written or a storage error logged, and the
\* subtask returns its result
AttemptSave ==
    /\ attemptPc = "save"
    /\ \E ok \in BOOLEAN :
        store' = IF ok
                 THEN put(store, [StoredResult("US", "SHOES", "color",
                                               attemptResult.aiGeneratedData,
                                               attemptResult.status, now)
                                     EXCEPT !.error = attemptResult.error])
                 ELSE store
    /\ attemptPc' = "done"
    /\ UNCHANGED <<now, lastOp, written, nOps>>
    /\ UNCHANGED <<schemaCache, schemaRetryCount, aiRetryCount, schemaRequests,
                   aiRequests, retryDelay, waited, attemptResult>>
    /\ UNCHANGED <<responseResults, nonAttemptStoreVars>>

NextAttempt ==
    \/ AttemptStart
    \/ SchemaRequestEnds
    \/ SchemaTimer
    \/ AiRequestEnds
    \/ AiTimer
    \/ AttemptSave

SpecAttempt == InitAttempt /\ [][NextAttempt]_vars

\* every request ends and every timer fires
SpecAttemptFair == SpecAttempt /\ WF_vars(NextAttempt)

(***************************************************************************)
(* $ref resolution (utils/valida.js)                                       *)
(*                                                                         *)
(* A schema is a JSON value.  What a call returns or throws is a record:   *)
(* ok, the value returned, the name and the message of the error thrown.   *)
(* The pointers of the schemas drawn lead into "$defs" or nowhere, so the  *)
(* root schema is never read at a place the call has already rewritten.    *)
(***************************************************************************)
Returned(v) == [ok |-> TRUE, v |-> v, name |-> "", message |-> ""]
Rejected(name, message) ==
    [ok |-> FALSE, v |-> JLit("null"), name |-> name, message |-> message]

\* text.split(separator) for a separator of one character, from character n
\* on, segment being the part read so far
RECURSIVE split(_, _, _, _)
split(text, separator, n, segment) ==
    IF n > Len(text) THEN <<segment>>
    ELSE IF Ch(text, n) = separator
    THEN <<segment>> \o split(text, separator, n + 1, "")
    ELSE split(text, separator, n + 1, segment \o Ch(text, n))

\* the loop of resolveRef from segment n of path on
RECURSIVE walkPath(_, _, _, _)
walkPath(current, path, n, refPath) ==
    IF n > Len(path) THEN Returned(current)
    ELSE IF current.t = "object" /\ HasMember(current, path[n])
    THEN walkPath(Member(current, path[n]), path, n + 1, refPath)
    ELSE Rejected("Error", "Reference " \o refPath \o " cannot be resolved")

resolveRef(schema, refPath) ==
    walkPath(schema, split(SubSeq(refPath, 3, Len(refPath)), "/", 1, ""), 1, refPath)

\* property.$ref
hasRef(property) ==
    /\ property.t = "object"
    /\ HasMember(property, "$ref")
    /\ Member(property, "$ref").t = "string"
    /\ Member(property, "$ref").s # ""

\* property.type === type
hasType(property, type) ==
    /\ property.t = "object"
    /\ HasMember(property, "type")
    /\ Member(property, "type") = JStr(type)

\* property[key] is an object
hasObject(property, key) ==
    /\ property.t = "object"
    /\ HasMember(property, key)
    /\ Member(property, key).t = "object"

RECURSIVE parseSchemaProperties(_, _)
RECURSIVE parseEntries(_, _, _)
\* the loop of parseSchemaProperties over Object.entries(schema.properties)
\* from entry n on; it returns the members of schema.properties
parseEntries(entries, n, rootSchema) ==
    IF n > Len(entries) THEN Returned(JObj(entries))
    ELSE LET key == entries[n].s
             property == entries[n].a[1]
             value ==
                 IF hasRef(property)
                 THEN resolveRef(rootSchema, Member(property, "$ref").s)
                 ELSE IF hasType(property, "object") /\ hasObject(property, "properties")
                 THEN parseSchemaProperties(property, rootSchema)
                 ELSE IF /\ hasType(property, "array")
                         /\ hasObject(property, "items")
                         /\ hasType(Member(property, "items"), "object")
                 THEN LET items == parseSchemaProperties(Member(property, "items"),
                                                         rootSchema)
                      IN  IF items.ok
                          THEN Returned(JObj(SetMember(property.a, "items", items.v)))
                          ELSE items
                 ELSE Returned(property)
         IN  IF value.ok
             THEN parseEntries([entries EXCEPT ![n] = JMember(key, value.v)],
                               n + 1, rootSchema)
             ELSE value

parseSchemaProperties(schema, rootSchema) ==
    IF ~hasObject(schema, "properties") THEN Returned(schema)
    ELSE LET properties == parseEntries(Member(schema, "properties").a, 1, rootSchema)
         IN  IF properties.ok
             THEN Returned(JObj(SetMember(schema.a, "properties", properties.v)))
             ELSE properties

\* {$ref: refPath}
Ref(refPath) == JObj(<<JMember("$ref", JStr(refPath))>>)

\* {type: type}
Typed(type) == JObj(<<JMember("type", JStr(type))>>)

\* {type: 'object', properties: {[key]: property}}
ObjectOf(key, property) ==
    JObj(<<JMember("type", JStr("object")),
           JMember("properties", JObj(<<JMember(key, property)>>))>>)

\* {type: 'array', items: items}
ArrayOf(items) ==
    JObj(<<JMember("type", JStr("array")), JMember("items", items)>>)

\* the pointers of the schemas drawn: to a definition without pointers, to
\* one with a pointer among its properties, to one that is a pointer, to
\* no definition, and through a definition to nothing
RefPaths ==
    {"#/$defs/text", "#/$defs/tagged", "#/$defs/alias", "#/$defs/none",
     "#/$defs/text/none"}

\* the definitions a schema may carry
Definitions ==
    <<JMember("text", Typed("string")),
      JMember("tagged", ObjectOf("language_tag", Ref("#/$defs/text"))),
      JMember("alias", Ref("#/$defs/text"))>>

\* the members of members whose place is in kept, in their order
RECURSIVE keep(_, _, _)
keep(members, kept, n) ==
    IF n > Len(members) THEN <<>>
    ELSE (IF n \in kept THEN <<members[n]>> ELSE <<>>) \o keep(members, kept, n + 1)

\* the shapes of an attribute's schema around a pointer
PropertyShapes(refPath) ==
    {Ref(refPath),
     ObjectOf("value", Ref(refPath)),
     ArrayOf(ObjectOf("value", Ref(refPath))),
     ArrayOf(ObjectOf("value", ObjectOf("unit", Ref(refPath)))),
     ArrayOf(Ref(refPath)),
     ArrayOf(Typed("string"))}

\* {type: 'object', properties: {[property]: propertySchema}, $defs: schema.$defs}
RefSchemas ==
    UNION {{JObj(<<JMember("type", JStr("object")),
                   JMember("properties", JObj(<<JMember("color", shape)>>)),
                   JMember("$defs", JObj(keep(Definitions, kept, 1)))>>) :
               shape \in PropertyShapes(refPath),
               kept \in SUBSET (1..Len(Definitions))} :
           refPath \in RefPaths}

InitResolve ==
    /\ refSchema \in {<<s>> : s \in RefSchemas}
    /\ refOutcome = <<>>
    /\ RLIdle
    /\ StoreIdle
    /\ RunIdle
    /\ RepairIdle
    /\ LimitedIdle
    /\ StripIdle
    /\ CacheIdle
    /\ SyncAllIdle
    /\ GroupIdle
    /\ ValidateIdle
    /\ SyncIdle
    /\ RetryIdle
    /\ CleaningIdle
    /\ AttemptIdle

\* const processedSchema = parseSchemaProperties({...})
ParseSchemaProperties ==
    /\ refOutcome = <<>>
    /\ refOutcome' = <<parseSchemaProperties(refSchema[1], refSchema[1])>>
    /\ UNCHANGED <<refSchema, nonResolveVars>>

NextResolve == ParseSchemaProperties

SpecResolve == InitResolve /\ [][NextResolve]_vars

(***************************************************************************)
(* The results page (groupResultsByPropertyAndValue)                       *)
(*                                                                         *)
(* The three nested Maps are read back in insertion order: the keys of a   *)
(* Map are the distinct keys in the order of their first insertion.        *)
(***************************************************************************)
\* the value of a property that is not there
JUndefined == JLit("undefined")

\* the truthiness of a value
Truthy(v) ==
    IF v.t = "string" THEN v.s # ""
    ELSE IF v.t = "number" THEN v.s \notin {"0", "-0"}
    ELSE IF v.t = "literal" THEN v.s = "true"
    ELSE TRUE

\* typeof v === 'object' for a truthy v
IsObject(v) == v.t \in {"object", "array"}

\* v[k]
Prop(v, k) ==
    IF v.t = "object" /\ HasMember(v, k) THEN Member(v, k) ELSE JUndefined

\* a || b
OrElse(a, b) == IF Truthy(a) THEN a ELSE b

\* String(v)
RECURSIVE String(_)
RECURSIVE StringList(_, _)
StringList(items, n) ==
    IF n > Len(items) THEN ""
    ELSE (IF n > 1 THEN "," ELSE "")
         \o (IF items[n].t = "literal" /\ items[n].s \in {"null", "undefined"}
             THEN "" ELSE String(items[n]))
         \o StringList(items, n + 1)

String(v) ==
    IF v.t \in {"string", "number", "literal"} THEN v.s
    ELSE IF v.t = "array" THEN StringList(v.a, 1)
    ELSE "[object Object]"

\* the value read from a rawValue that is an object
objectValue(rawValue) ==
    IF rawValue.t = "array" /\ Len(rawValue.a) > 0
    THEN LET firstValue == rawValue.a[1]
         IN  IF Truthy(firstValue) /\ IsObject(firstValue)
             THEN String(OrElse(Prop(firstValue, "value"),
                         OrElse(Prop(firstValue, "content"),
                         OrElse(Prop(firstValue, "text"),
                                JStr(JSONstringify(firstValue))))))
             ELSE String(firstValue)
    ELSE IF Prop(rawValue, "value") # JUndefined THEN String(Prop(rawValue, "value"))
    ELSE IF Prop(rawValue, "content") # JUndefined THEN String(Prop(rawValue, "content"))
    ELSE IF Prop(rawValue, "text") # JUndefined THEN String(Prop(rawValue, "text"))
    ELSE JSONstringify(rawValue)

\* Object.keys(firstItem).filter(key => !excludeFields.includes(key))
contentFields(firstItem) ==
    SelectSeq([n \in 1..Len(firstItem.a) |->
                  IF firstItem.t = "object" THEN firstItem.a[n].s ELSE IndexText(n - 1)],
              LAMBDA key : key \notin {"language_tag", "marketplace_id", "timestamp", "id"})

\* rawValue = firstItem.attribute_value || firstItem.value || ...
rawValueOf(firstItem) ==
    OrElse(Prop(firstItem, "attribute_value"),
    OrElse(Prop(firstItem, "value"),
    OrElse(Prop(firstItem, "attributeValue"),
    OrElse(Prop(firstItem, "val"),
    OrElse(Prop(firstItem, "content"),
           Prop(firstItem, "text"))))))

\* the value read from rawValue
rawValueText(rawValue) ==
    IF Truthy(rawValue) /\ IsObject(rawValue) THEN objectValue(rawValue)
    ELSE IF rawValue \notin {JUndefined, JLit("null")} THEN String(rawValue)
    ELSE "unknown value"

\* the value read from the first content field
contentText(contentValue) ==
    IF contentValue.t = "string" THEN contentValue.s
    ELSE IF Truthy(contentValue) /\ IsObject(contentValue)
    THEN JSONstringify(contentValue)
    ELSE String(contentValue)

\* the fallback to the first content field when no value was read
itemContent(firstItem, value, fields) ==
    IF (value = "" \/ value = "unknown value") /\ Len(fields) > 0
    THEN contentText(IF firstItem.t = "object"
                     THEN Member(firstItem, fields[1])
                     ELSE firstItem.a[1])
    ELSE value

\* the value read from a firstItem that is an object
itemValue(firstItem) ==
    itemContent(firstItem, rawValueText(rawValueOf(firstItem)),
                contentFields(firstItem))

\* firstItem = Array.isArray(data) ? data[0] : data
firstItemOf(data) ==
    IF data.t = "array"
    THEN (IF Len(data.a) > 0 THEN data.a[1] ELSE JUndefined)
    ELSE data

\* the value read from firstItem
readValue(firstItem) ==
    IF Truthy(firstItem) /\ IsObject(firstItem) THEN itemValue(firstItem)
    ELSE IF firstItem.t = "string" THEN firstItem.s
    ELSE IF firstItem \notin {JUndefined, JLit("null")} THEN String(firstItem)
    ELSE "unknown value"

\* value.substring(0, 200) + '...' for a value of more than 200 characters
truncated(value) ==
    IF Len(value) > 200 THEN SubSeq(value, 1, 200) \o "..." ELSE value

\* the value a completed result is shown under ('未知值' is rendered
\* "unknown value"; a value the code keeps as a number or an object is
\* rendered by its String)
shownValue(read) ==
    truncated(IF read \in {"", "undefined", "null"} THEN "unknown value"
              ELSE read)

valueOfData(data) == shownValue(readValue(firstItemOf(data)))

\* where results.forEach puts a result whose data parsed as `data`
placeParsed(result, siteKey, data) ==
    IF result.status = "failed"
    THEN <<[property |-> result.property,
            value |-> IF result.error # "" THEN result.error ELSE "processing failed",
            siteKey |-> siteKey, result |-> result]>>
    ELSE IF result.aiGeneratedData = "" \/ result.status # "completed" THEN <<>>
    ELSE IF ~data.ok THEN <<>>
    ELSE <<[property |-> result.property, value |-> valueOfData(data.v),
            siteKey |-> siteKey, result |-> result]>>

\* where results.forEach puts a result: nowhere, or under a value and a site
\* key ('处理失败' is rendered "processing failed")
placeOf(result) ==
    placeParsed(result, result.site \o "_" \o result.productType,
                JSONparse(result.aiGeneratedData))

\* the results forEach has placed, in their order
RECURSIVE placed(_)
placed(results) ==
    IF results = <<>> THEN <<>>
    ELSE placed(SubSeq(results, 1, Len(results) - 1)) \o placeOf(results[Len(results)])

\* the members of seq and of keys without the n-th
Without(seq, n) == SubSeq(seq, 1, n - 1) \o SubSeq(seq, n + 1, Len(seq))

\* Array.prototype.sort by a number per element, ascending and stable
RECURSIVE sortByKey(_, _)
sortByKey(seq, keys) ==
    IF seq = <<>> THEN <<>>
    ELSE LET n == CHOOSE i \in 1..Len(seq) :
                      \A j \in 1..Len(seq) :
                          keys[i] < keys[j] \/ (keys[i] = keys[j] /\ i <= j)
         IN  <<seq[n]>> \o sortByKey(Without(seq, n), Without(keys, n))

\* .sort((a, b) => b.totalCount - a.totalCount)
sortByTotalCount(groups) ==
    sortByKey(groups, [n \in 1..Len(groups) |-> 0 - groups[n].totalCount])

\* the number of the elements of seq that are in the state
countOf(seq, status) == Len(SelectSeq(seq, LAMBDA r : r.status = status))

\* siteMap.forEach: the SiteInfo of a site key split into parts
SiteInfoOf(parts, siteResults) ==
    [site |-> parts[1],
     productType |-> IF Len(parts) > 1 THEN parts[2] ELSE "undefined",
     results |-> siteResults,
     successCount |-> countOf(siteResults, "completed"),
     failedCount |-> countOf(siteResults, "failed")]

SiteInfo(siteKey, siteResults) ==
    SiteInfoOf(split(siteKey, "_", 1, ""), siteResults)

\* the sum of a count over the groups
RECURSIVE Sum(_, _)
Sum(groups, field) ==
    IF groups = <<>> THEN 0 ELSE groups[1][field] + Sum(Tail(groups), field)

\* the results of the entries
resultsOf(entries) == [m \in 1..Len(entries) |-> entries[m].result]

\* the SiteInfo of every site key of the entries of a value
siteInfos(entries, siteKeys) ==
    [n \in 1..Len(siteKeys) |->
        SiteInfo(siteKeys[n],
                 resultsOf(SelectSeq(entries,
                                     LAMBDA e : e.siteKey = siteKeys[n])))]

\* the ValueGroup of a value and its sites
valueGroupOf(value, entries, sites) ==
    [value |-> value,
     sites |-> sortByKey(sites, [n \in 1..Len(sites) |->
                                    Rank(SiteCodes, sites[n].site)]),
     totalCount |-> Len(entries),
     successCount |-> Sum(sites, "successCount"),
     failedCount |-> Sum(sites, "failedCount")]

\* valueMap.forEach: the ValueGroup of a value
ValueGroup(value, entries) ==
    valueGroupOf(value, entries,
                 siteInfos(entries,
                           Distinct([n \in 1..Len(entries) |->
                                        entries[n].siteKey])))

\* the ValueGroup of every value of the entries of a property
valueGroupsOf(entries, values) ==
    [n \in 1..Len(values) |->
        ValueGroup(values[n],
                   SelectSeq(entries, LAMBDA e : e.value = values[n]))]

\* the PropertyGroup of a property and its value groups
propertyGroupOf(propertyName, valueGroups) ==
    [propertyName |-> propertyName,
     valueGroups |-> sortByTotalCount(valueGroups),
     totalCount |-> Sum(valueGroups, "totalCount"),
     successCount |-> Sum(valueGroups, "successCount"),
     failedCount |-> Sum(valueGroups, "failedCount")]

\* propertyMap.forEach: the PropertyGroup of a property
PropertyGroup(propertyName, entries) ==
    propertyGroupOf(propertyName,
                    valueGroupsOf(entries,
                                  Distinct([n \in 1..Len(entries) |->
                                               entries[n].value])))

\* the PropertyGroup of every property of the entries
propertyGroupsOf(entries, names) ==
    [n \in 1..Len(names) |->
        PropertyGroup(names[n],
                      SelectSeq(entries, LAMBDA e : e.property = names[n]))]

\* the groups of the placed entries, the largest first
groupsOfEntries(entries) ==
    sortByTotalCount(propertyGroupsOf(entries,
                         Distinct([n \in 1..Len(entries) |->
                                      entries[n].property])))

groupResultsByPropertyAndValue(results) == groupsOfEntries(placed(results))

\* the records the page may find: completed ones of two values, a failed one
\* with and without an error text, a completed one without data, for two
\* sites and two product types
ViewRecords ==
    {[StoredResult(site, productType, "color", kind[1], kind[2], 1)
         EXCEPT !.error = kind[3]] :
        site \in {"DE", "US"},
        productType \in {"SHOES", "HOME_DECOR"},
        kind \in {<<"[{\"value\":\"red\"}]", "completed", "">>,
                  <<"[{\"value\":\"blue\"}]", "completed", "">>,
                  <<"", "failed", "Generation failed">>,
                  <<"", "failed", "">>,
                  <<"", "completed", "">>}}

\* at most MaxShown results of different ids
MaxShown == 2

ViewLists ==
    UNION {{l \in [1..n -> ViewRecords] :
               \A i, j \in 1..n : i # j => l[i].id # l[j].id} : n \in 0..MaxShown}

InitGroup ==
    /\ viewResults \in ViewLists
    /\ propertyGroups = <<>>
    /\ RLIdle
    /\ StoreIdle
    /\ RunIdle
    /\ RepairIdle
    /\ LimitedIdle
    /\ StripIdle
    /\ CacheIdle
    /\ SyncAllIdle
    /\ ValidateIdle
    /\ SyncIdle
    /\ RetryIdle
    /\ CleaningIdle
    /\ AttemptIdle
    /\ ResolveIdle

\* const grouped = groupResultsByPropertyAndValue(sortedResults)
GroupResults ==
    /\ propertyGroups = <<>>
    /\ propertyGroups' = <<groupResultsByPropertyAndValue(viewResults)>>
    /\ UNCHANGED <<viewResults, nonGroupVars>>

NextGroup == GroupResults

SpecGroup == InitGroup /\ [][NextGroup]_vars

(***************************************************************************)
(* The full sync (syncAllByProperty, syncGroupedData), request by request  *)
(***************************************************************************)
\* getAllPropertyNames: the distinct property names of the store, sorted
getAllPropertyNames ==
    SelectSeq(PropertyNames, LAMBDA p : \E r \in store : r.property = p)

\* the loop of syncAllByProperty over propertyNames from the n-th on
RECURSIVE collectGroups(_, _)
collectGroups(propertyNames, n) ==
    IF n > Len(propertyNames) THEN <<>>
    ELSE groupResultsByProperty(propertyNames[n], getResultsByProperty(propertyNames[n]))
         \o collectGroups(propertyNames, n + 1)

\* a BatchSyncResult of one entry that tells why nothing was synced
nothingSynced(failed, message, error) ==
    [total |-> 0, success |-> 0, failed |-> failed,
     results |-> <<SyncResult("", "", FALSE, message, error)>>]

\* a loop that a failed request ends
afterGroupStopOnFailure(i, total, response) ==
    IF response = "200" /\ i < total THEN "delay" ELSE "done"

\* where the loop of syncGroupedData goes after the entry of group i: to the
\* delay before the next group, or out of the loop
afterGroup(i, total, response) == IF i < total THEN "delay" ELSE "done"

InitSyncAll ==
    /\ store \in SyncStores
    /\ now = 7
    /\ lastOp = [op |-> "none"]
    /\ written = {}
    /\ nOps = 0
    /\ SyncAllIdle
    /\ SyncIdle
    /\ RLIdle
    /\ RunIdle
    /\ RepairIdle
    /\ LimitedIdle
    /\ StripIdle
    /\ CacheIdle
    /\ ValidateIdle
    /\ RetryIdle
    /\ CleaningIdle
    /\ AttemptIdle
    /\ ResolveIdle
    /\ GroupIdle

\* syncAllByProperty up to the loop of syncGroupedData: the property names
\* and the results are read, the groups collected, and the early returns
SyncAllByProperty ==
    /\ allPc = "idle"
    /\ \E readOk \in BOOLEAN :
          IF ~readOk
          THEN /\ allResult' = <<nothingSynced(1, "full sync failed",
                                              "Failed to get property names")>>
               /\ allPc' = "done"
               /\ UNCHANGED <<allGroupedData, allIndex, allSyncing>>
          ELSE IF Len(getAllPropertyNames) = 0
          THEN /\ allResult' = <<nothingSynced(0, "no attribute to sync",
                                              "no attribute data found")>>
               /\ allPc' = "done"
               /\ UNCHANGED <<allGroupedData, allIndex, allSyncing>>
          ELSE LET groups == collectGroups(getAllPropertyNames, 1) IN
               /\ allGroupedData' = groups
               /\ IF Len(groups) = 0
                  THEN /\ allResult' = <<nothingSynced(0, "no data to sync",
                                            "no valid verification result found")>>
                       /\ allPc' = "done"
                       /\ UNCHANGED <<allIndex, allSyncing>>
                  ELSE /\ allResult' = <<[total |-> Len(groups), success |-> 0,
                                          failed |-> 0, results |-> <<>>]>>
                       /\ allSyncing' = TRUE
                       /\ allIndex' = 1
                       /\ allPc' = "posting"
    /\ UNCHANGED <<posted, inFlight, nonSyncAllVars>>

\* axios.post(..., groupData): the request of group i leaves
PostRequest ==
    /\ allPc = "posting"
    /\ posted' = Append(posted, allIndex)
    /\ inFlight' = inFlight + 1
    /\ allPc' = "awaiting"
    /\ UNCHANGED <<allGroupedData, allIndex, allResult, allSyncing, nonSyncAllVars>>

\* the request settles: the entry of the group is pushed, and after the last
\* group isSyncing is reset and the result returned
RequestSettles ==
    /\ allPc = "awaiting"
    /\ \E response \in Responses :
          /\ allResult' =
                 <<[total |-> allResult[1].total,
                    success |-> allResult[1].success
                                   + (IF response = "200" THEN 1 ELSE 0),
                    failed |-> allResult[1].failed
                                   + (IF response = "200" THEN 0 ELSE 1),
                    results |-> Append(allResult[1].results,
                                   groupOutcome(allGroupedData[allIndex], response))]>>
          /\ allPc' = afterGroup(allIndex, Len(allGroupedData), response)
          /\ allSyncing' =
                 (afterGroup(allIndex, Len(allGroupedData), response) # "done")
    /\ inFlight' = inFlight - 1
    /\ UNCHANGED <<allGroupedData, allIndex, posted, nonSyncAllVars>>

\* await new Promise(resolve => setTimeout(resolve, 500)); i++
DelayEnds ==
    /\ allPc = "delay"
    /\ allIndex' = allIndex + 1
    /\ allPc' = "posting"
    /\ UNCHANGED <<allGroupedData, allResult, allSyncing, posted, inFlight,
                   nonSyncAllVars>>

NextSyncAll ==
    \/ SyncAllByProperty
    \/ PostRequest
    \/ RequestSettles
    \/ DelayEnds

SpecSyncAll == InitSyncAll /\ [][NextSyncAll]_vars

(***************************************************************************)
(* getSchema calls of one batch on the shared schemaCache                  *)
(*                                                                         *)
(* The callbacks of a batch call getSchema one after the other before any  *)
(* of their requests ends.  A call of handleRetryFailedResults is made per *)
(* failed result, so two calls of a batch may ask for the same pair.       *)
(***************************************************************************)
\* the calls of a batch
SchemaCallers == 1..batchSize

\* const cacheKey = `${site}-${productType}`
cacheKey(site, productType) == site \o "-" \o productType

\* the cache keys the calls ask for
CacheKeys == {cacheKey("US", "SHOES"), cacheKey("DE", "SHOES")}

\* getSchema from its first line: the cached schema is returned, or a request
\* for the schema leaves
enterGetSchema(key) == IF key \in cachedSchemas THEN "returned" ELSE "fetching"

InitCache ==
    /\ getPc = [c \in SchemaCallers |-> "idle"]
    /\ getPair \in [SchemaCallers -> CacheKeys]
    /\ getRetryCount = [c \in SchemaCallers |-> 0]
    /\ cachedSchemas \in SUBSET CacheKeys
    /\ fetchesStarted = [k \in CacheKeys |-> 0]
    /\ fetchesDone = [k \in CacheKeys |-> 0]
    /\ RLIdle
    /\ StoreIdle
    /\ RunIdle
    /\ RepairIdle
    /\ LimitedIdle
    /\ StripIdle
    /\ ValidateIdle
    /\ SyncIdle
    /\ RetryIdle
    /\ CleaningIdle
    /\ AttemptIdle
    /\ ResolveIdle
    /\ GroupIdle
    /\ SyncAllIdle

\* const schema = await getSchema(site, productType)
GetSchema(c) ==
    /\ getPc[c] = "idle"
    /\ getPc' = [getPc EXCEPT ![c] = enterGetSchema(getPair[c])]
    /\ fetchesStarted' =
           IF enterGetSchema(getPair[c]) = "fetching"
           THEN [fetchesStarted EXCEPT ![getPair[c]] = @ + 1]
           ELSE fetchesStarted
    /\ UNCHANGED <<getPair, getRetryCount, cachedSchemas, fetchesDone, nonCacheVars>>

\* getSchemaUrl and fetchSchema end: the schema is cached and returned, or
\* the error is caught and a timer set; after the last retry the throw is
\* made in the timer's callback and the promise the caller awaits stays
\* pending
SchemaFetchEnds(c) ==
    /\ getPc[c] = "fetching"
    /\ \E ok \in BOOLEAN :
          IF ok
          THEN /\ cachedSchemas' = cachedSchemas \cup {getPair[c]}
               /\ fetchesDone' = [fetchesDone EXCEPT ![getPair[c]] = @ + 1]
               /\ getPc' = [getPc EXCEPT ![c] = "returned"]
          ELSE /\ getPc' = [getPc EXCEPT ![c] =
                               IF getRetryCount[c] < maxRetries
                               THEN "timer" ELSE "unsettled"]
               /\ UNCHANGED <<cachedSchemas, fetchesDone>>
    /\ UNCHANGED <<getPair, getRetryCount, fetchesStarted, nonCacheVars>>

\* setTimeout(async () => { await getSchema(site, productType, retryCount + 1,
\* maxRetries) ... }, delay) fires
SchemaTimerFires(c) ==
    /\ getPc[c] = "timer"
    /\ getRetryCount' = [getRetryCount EXCEPT ![c] = @ + 1]
    /\ getPc' = [getPc EXCEPT ![c] = enterGetSchema(getPair[c])]
    /\ fetchesStarted' =
           IF enterGetSchema(getPair[c]) = "fetching"
           THEN [fetchesStarted EXCEPT ![getPair[c]] = @ + 1]
           ELSE fetchesStarted
    /\ UNCHANGED <<getPair, cachedSchemas, fetchesDone, nonCacheVars>>

NextCache ==
    \/ \E c \in SchemaCallers : GetSchema(c)
    \/ \E c \in SchemaCallers : SchemaFetchEnds(c)
    \/ \E c \in SchemaCallers : SchemaTimerFires(c)

SpecCache == InitCache /\ [][NextCache]_vars

(***************************************************************************)
(* removeMarketplaceIdRecursively on parsed JSON values                    *)
(***************************************************************************)

\* the member names and the scalars the values are built from
StripNames == {"marketplace_id", "value", "__proto__", "hasOwnProperty"}
StripScalars == {JStr("US"), JNum("1")}

\* [x], {k: x} and {k: x, "value": "US"} for every x of a set of values
Wrapped(values) ==
    values
    \cup {JArr(<<x>>) : x \in values}
    \cup {JObj(<<JMember(k, x)>>) : k \in StripNames, x \in values}
    \cup {JObj(<<JMember(k, x), JMember("value", JStr("US"))>>) :
             k \in StripNames \ {"value"}, x \in values}

\* what JSON.parse can hand over: scalars, and two levels of nesting
StripValues == Wrapped(Wrapped(StripScalars)) \cup {JArr(<<>>), JObj(<<>>)}

InitStrip ==
    /\ stripPc = "input"
    /\ stripInput \in StripValues
    /\ stripResult = <<>>
    /\ stripAgain = <<>>
    /\ RLIdle /\ StoreIdle /\ RunIdle /\ RepairIdle /\ ValidateIdle
    /\ SyncIdle /\ RetryIdle /\ CleaningIdle /\ AttemptIdle /\ ResolveIdle
    /\ GroupIdle /\ SyncAllIdle /\ CacheIdle /\ LimitedIdle

\* const cleaningResult = removeMarketplaceIdRecursively(jsonData)
RemoveMarketplaceId ==
    /\ stripPc = "input"
    /\ stripResult' = removeMarketplaceIdRecursively(stripInput)
    /\ stripPc' = "stripped"
    /\ UNCHANGED <<stripInput, stripAgain, nonStripVars>>

\* the same call on the cleaned value of a call that returned
RemoveMarketplaceIdAgain ==
    /\ stripPc = "stripped"
    /\ ~stripResult.threw
    /\ stripAgain' = removeMarketplaceIdRecursively(stripResult.cleaned)
    /\ stripPc' = "again"
    /\ UNCHANGED <<stripInput, stripResult, nonStripVars>>

NextStrip == RemoveMarketplaceId \/ RemoveMarketplaceIdAgain

SpecStrip == InitStrip /\ [][NextStrip]_vars

(***************************************************************************)
(* saveResult on composite keys whose components hold the separator       *)
(***************************************************************************)
\* composite keys with and without a '-' inside a component
HyphenKeys ==
    {<<"US", productType, property>> :
        productType \in {"SHIRT", "SHIRT-DRESS"},
        property \in {"size", "DRESS-size"}}

InitUpsert ==
    /\ store = {}
    /\ now = 0
    /\ lastOp = [op |-> "none"]
    /\ written = {}
    /\ nOps = 0
    /\ RLIdle /\ RunIdle /\ RepairIdle /\ ValidateIdle /\ SyncIdle
    /\ RetryIdle /\ CleaningIdle /\ AttemptIdle /\ ResolveIdle /\ GroupIdle
    /\ SyncAllIdle /\ CacheIdle /\ StripIdle /\ LimitedIdle

\* saveResult(result) of a subtask, Date.now() having advanced or not
SaveKeyedResult ==
    \E k \in HyphenKeys, status \in Statuses, data \in Payloads,
       t \in {now, IF now < MaxTime THEN now + 1 ELSE now} :
        /\ nOps < MaxOps
        /\ store' = saveResult(k[1], k[2], k[3], data, status, t)
        /\ now' = t
        /\ lastOp' = [op |-> "save", key |-> k, data |-> data, status |-> status,
                      time |-> t, existed |-> hasAnyResult(k[1], k[2], k[3])]
        /\ written' = written \cup {k}
        /\ nOps' = nOps + 1
        /\ UNCHANGED nonStoreVars

NextUpsert == SaveKeyedResult

SpecUpsert == InitUpsert /\ [][NextUpsert]_vars

(***************************************************************************)
(* executeWithRetry of generateJson on the shared Rate Limiter             *)
(*                                                                         *)
(* Each request runs inside rateLimiter.execute; the catch block of        *)
(* executeWithRetry, its wait and its retry run after execute has settled. *)
(***************************************************************************)
RetryCallers == 1..MaxRetryCallers

\* how a request to the model ends
RequestReplies == {"response", "error", "429"}

InitLimited ==
    /\ queue = <<>>
    /\ runningCount = 0
    /\ maxConcurrent = AI_API_RATE_LIMIT
    /\ callerPc = [c \in Callers |-> "idle"]
    /\ microtasks = <<>>
    /\ nCalled = 0
    /\ lastWake = <<0, FALSE>>
    /\ lrStage = [c \in RetryCallers |-> "none"]
    /\ lrRetryCount = [c \in RetryCallers |-> 0]
    /\ lrReply = [c \in RetryCallers |-> "none"]
    /\ StoreIdle /\ RunIdle /\ RepairIdle /\ ValidateIdle /\ SyncIdle
    /\ RetryIdle /\ CleaningIdle /\ AttemptIdle /\ ResolveIdle /\ GroupIdle
    /\ SyncAllIdle /\ CacheIdle /\ StripIdle

\* a retry that goes to the head of the queue
retryRequestAhead(c) ==
    IF runningCount < maxConcurrent
    THEN /\ runningCount' = runningCount + 1
         /\ callerPc' = [callerPc EXCEPT ![c] = "admitted"]
         /\ microtasks' = Append(microtasks, c)
         /\ queue' = queue
    ELSE /\ queue' = <<c>> \o queue
         /\ callerPc' = [callerPc EXCEPT ![c] = "queued"]
         /\ UNCHANGED <<runningCount, microtasks>>

\* return await executeWithRetry(retryCount + 1, maxRetries): the request
\* goes through rateLimiter.execute again
retryRequest(c) == waitForSlot(c)

\* generateJson is called: executeWithRetry() calls rateLimiter.execute
GenerateJson ==
    /\ nCalled < MaxRetryCallers
    /\ LET c == nCalled + 1 IN
       /\ nCalled' = c
       /\ waitForSlot(c)
       /\ lrStage' = [lrStage EXCEPT ![c] = "inExecute"]
    /\ UNCHANGED <<maxConcurrent, lastWake, lrRetryCount, lrReply>>
    /\ UNCHANGED nonRlLimitedVars

\* the continuation of `await waitForSlot()`: the request is sent
SendRequest ==
    /\ microtasks # <<>>
    /\ callerPc[Head(microtasks)] = "admitted"
    /\ callerPc' = [callerPc EXCEPT ![Head(microtasks)] = "running"]
    /\ microtasks' = Tail(microtasks)
    /\ UNCHANGED <<queue, runningCount, maxConcurrent, nCalled, lastWake>>
    /\ UNCHANGED <<limitedVars, nonRlLimitedVars>>

\* ai.models.generateContent settles
RequestEnds(c, reply) ==
    /\ c \in RetryCallers
    /\ callerPc[c] = "running"
    /\ callerPc' = [callerPc EXCEPT ![c] = IF reply = "response" THEN "settledOk"
                                           ELSE "settledFail"]
    /\ microtasks' = Append(microtasks, c)
    /\ lrReply' = [lrReply EXCEPT ![c] = reply]
    /\ UNCHANGED <<queue, runningCount, maxConcurrent, nCalled, lastWake>>
    /\ UNCHANGED <<lrStage, lrRetryCount, nonRlLimitedVars>>

\* the finally block of execute: the slot is released
ReleaseSlot ==
    /\ microtasks # <<>>
    /\ callerPc[Head(microtasks)] \in {"settledOk", "settledFail"}
    /\ releaseSlot(Head(microtasks))
    /\ UNCHANGED <<maxConcurrent, nCalled, lastWake>>
    /\ UNCHANGED <<limitedVars, nonRlLimitedVars>>

\* execute has settled: executeWithRetry returns the response, or its catch
\* block rethrows, gives up, or starts the timer of the retry delay
ExecuteSettled(c) ==
    /\ c \in RetryCallers
    /\ lrStage[c] = "inExecute"
    /\ callerPc[c] = "done"
    /\ lrStage' = [lrStage EXCEPT ![c] =
                      IF lrReply[c] = "response" THEN "returned"
                      ELSE IF lrReply[c] = "429" /\ lrRetryCount[c] < maxRetries
                      THEN "waiting"
                      ELSE "threw"]
    /\ UNCHANGED <<rlVars, lrRetryCount, lrReply, nonRlLimitedVars>>

\* the timer of the retry delay fires: executeWithRetry(retryCount + 1)
RetryTimerFires(c) ==
    /\ c \in RetryCallers
    /\ lrStage[c] = "waiting"
    /\ retryRequest(c)
    /\ lrStage' = [lrStage EXCEPT ![c] = "inExecute"]
    /\ lrRetryCount' = [lrRetryCount EXCEPT ![c] = @ + 1]
    /\ UNCHANGED <<maxConcurrent, nCalled, lastWake, lrReply>>
    /\ UNCHANGED nonRlLimitedVars

NextLimited ==
    \/ GenerateJson
    \/ SendRequest
    \/ \E c \in RetryCallers, reply \in RequestReplies : RequestEnds(c, reply)
    \/ ReleaseSlot
    \/ \E c \in RetryCallers : ExecuteSettled(c)
    \/ \E c \in RetryCallers : RetryTimerFires(c)

SpecLimited == InitLimited /\ [][NextLimited]_vars

(***************************************************************************)
(* updateSyncStatus of the Result Store                                    *)
(***************************************************************************)
\* the values of syncStatus, and the error texts syncSingleResult passes
\* (none, or a message)
SyncStatuses == {"pending", "syncing", "synced", "sync_failed"}
SyncErrors == {"", "Network Error"}

\* an update that also renews the record's timestamp
updateSyncStatusRenewing(id, syncStatus, syncError, time) ==
    LET existingResult == get(store, id)
    IN  IF existingResult = Null THEN [ok |-> FALSE, records |-> store]
        ELSE [ok |-> TRUE,
              records |-> put(store,
                              Merge(existingResult,
                                    [syncStatus |-> syncStatus,
                                     syncTimestamp |-> time,
                                     timestamp |-> time,
                                     syncError |-> IF syncError # "" THEN syncError
                                                   ELSE "undefined"]))]

\* updateSyncStatus: the record of the id is read; without one the call
\* rejects ('Result not found'), else {...existingResult, syncStatus,
\* syncTimestamp: Date.now(), syncError: syncError || undefined} is put
updateSyncStatus(id, syncStatus, syncError, time) ==
    LET existingResult == get(store, id)
    IN  IF existingResult = Null THEN [ok |-> FALSE, records |-> store]
        ELSE [ok |-> TRUE,
              records |-> put(store,
                              Merge(existingResult,
                                    [syncStatus |-> syncStatus,
                                     syncTimestamp |-> time,
                                     syncError |-> IF syncError # "" THEN syncError
                                                   ELSE "undefined"]))]

\* the store earlier sessions left: a completed and a failed record
InitSyncStatus ==
    /\ store = {StoredResult("US", "BOOTS", "color", "[{\"value\":\"red\"}]",
                             "completed", 0),
                StoredResult("UK", "SHOES", "size", "", "failed", 0)}
    /\ now = 0
    /\ lastOp = [op |-> "none"]
    /\ written = {}
    /\ nOps = 0
    /\ RLIdle /\ RunIdle /\ RepairIdle /\ ValidateIdle /\ SyncIdle
    /\ RetryIdle /\ CleaningIdle /\ AttemptIdle /\ ResolveIdle /\ GroupIdle
    /\ SyncAllIdle /\ CacheIdle /\ StripIdle /\ LimitedIdle

\* updateSyncStatus(id, syncStatus, syncError), Date.now() having advanced
\* or not
UpdateSyncStatus ==
    \E k \in Keys, syncStatus \in SyncStatuses, syncError \in SyncErrors,
       t \in {now, IF now < MaxTime THEN now + 1 ELSE now} :
        LET id == generateId(k[1], k[2], k[3])
            updated == updateSyncStatus(id, syncStatus, syncError, t)
        IN  /\ nOps < MaxOps
            /\ store' = updated.records
            /\ now' = t
            /\ lastOp' = [op |-> "syncStatus", id |-> id,
                          rejected |-> ~updated.ok]
            /\ UNCHANGED written
            /\ nOps' = nOps + 1
            /\ UNCHANGED nonStoreVars

NextSyncStatus == UpdateSyncStatus

SpecSyncStatus == InitSyncStatus /\ [][NextSyncStatus]_vars

(***************************************************************************)
(* Claims about the Rate Limiter                                           *)
(***************************************************************************)

\* C1: the number of tasks whose function has started and has not settled
\* never exceeds the limit N; with the default limit no two executions
\* overlap, however many tasks are launched.
C1_AtMostNInFlight ==
    /\ Cardinality(InFlight) <= maxConcurrent
    /\ maxConcurrent = AI_API_RATE_LIMIT =>
           \A c1, c2 \in Callers :
               (callerPc[c1] = "running" /\ callerPc[c2] = "running") => c1 = c2

\* ten tasks were launched with the default limit: one runs, some have
\* completed, the others wait
C1_Witness ==
    /\ maxConcurrent = AI_API_RATE_LIMIT
    /\ nCalled >= 10
    /\ Cardinality(InFlight) = maxConcurrent
    /\ Len(queue) > 0
    /\ \E c \in Callers : callerPc[c] = "done"

\* C2: no permanent deadlock: every caller queued in execute() is eventually
\* admitted and its task is run, given that every running task settles,
\* whether it resolves or rejects.
C2_NoDeadlock ==
    \A c \in Callers : (callerPc[c] = "queued") ~> (callerPc[c] = "running")

\* a waiter that the release of a rejected task woke is running
C2_Witness ==
    /\ lastWake[1] # 0
    /\ lastWake[2] = TRUE
    /\ callerPc[lastWake[1]] = "running"

\* C3: waiters are admitted in the order in which they called execute():
\* a completion releases exactly one waiter, the oldest, and no caller gets
\* ahead of a caller that arrived before it and is still waiting.
C3_Fifo ==
    [][ /\ Len(queue') >= Len(queue) - 1
        /\ Len(queue') < Len(queue) =>
               /\ queue' = Tail(queue)
               /\ callerPc'[Head(queue)] = "admitted"
               /\ \E c \in Callers : /\ callerPc[c] \in {"settledOk", "settledFail"}
                                     /\ callerPc'[c] = "done"
        /\ \A c \in Callers :
               (callerPc[c] \in {"settledOk", "settledFail"} /\ callerPc'[c] = "done"
                    /\ Len(queue) > 0)
               => Len(queue') = Len(queue) - 1
        /\ \A c, c2 \in Callers :
               (c2 < c /\ callerPc'[c2] = "queued") => callerPc'[c] \in {"idle", "queued"}
      ]_vars

\* a released waiter is running while later callers still wait behind it
C3_Witness ==
    /\ lastWake[1] # 0
    /\ callerPc[lastWake[1]] = "running"
    /\ Len(queue) >= 2
    /\ \A i \in 1..Len(queue) : lastWake[1] < queue[i]

(***************************************************************************)
(* Claims about the Result Store                                           *)
(***************************************************************************)
RecordsOfKey(k) ==
    {r \in store : r.site = k[1] /\ r.productType = k[2] /\ r.property = k[3]}

\* C4: upsert followed by get on the same key returns the record just
\* written, and the store holds exactly one record per key that was written:
\* a second upsert with the same key overwrites the first.
C4_UpsertThenGet ==
    /\ lastOp.op = "save" =>
           getResult(lastOp.key[1], lastOp.key[2], lastOp.key[3])
               = [id |-> generateId(lastOp.key[1], lastOp.key[2], lastOp.key[3]),
                  site |-> lastOp.key[1], productType |-> lastOp.key[2],
                  property |-> lastOp.key[3], aiGeneratedData |-> lastOp.data,
                  status |-> lastOp.status, error |-> "",
                  timestamp |-> lastOp.time]
    /\ \A k \in Keys :
           Cardinality(RecordsOfKey(k)) = IF k \in written THEN 1 ELSE 0

\* a key that held a failed record was written again, as completed, beside
\* another key
C4_Witness ==
    /\ lastOp.op = "save"
    /\ lastOp.existed
    /\ lastOp.status = "completed"
    /\ lastOp.time > 0
    /\ Cardinality(written) = 2
    /\ Cardinality(store) = 2

\* C5: hasResult(key) is true exactly when a record with that composite key
\* exists and is completed; it is false for a failed record, for which
\* hasAnyResult(key) is true.
C5_ExistsCompleted ==
    \A k \in Keys :
        /\ hasResult(k[1], k[2], k[3])
               <=> (\E r \in RecordsOfKey(k) : r.status = "completed")
        /\ (\E r \in RecordsOfKey(k) : r.status = "failed")
               => (~hasResult(k[1], k[2], k[3]) /\ hasAnyResult(k[1], k[2], k[3]))
        /\ hasAnyResult(k[1], k[2], k[3]) <=> RecordsOfKey(k) # {}

\* a failed record and a completed record of the same site and property
C5_Witness ==
    \E k1, k2 \in Keys :
        /\ k1[1] = k2[1] /\ k1[3] = k2[3] /\ k1[2] # k2[2]
        /\ \E r \in RecordsOfKey(k1) : r.status = "failed"
        /\ \E r \in RecordsOfKey(k2) : r.status = "completed"

SitePropertyPairs == {<<k[1], k[3]>> : k \in Keys}

\* C6: after removeDuplicateSitePropertyRecords every (site, property) pair
\* that had records has exactly one, which is one of its records and has the
\* greatest timestamp the pair's records had; the record of a pair that had
\* a single record is untouched, and no record appears.
C6_RemoveDuplicates ==
    [][ lastOp'.op = "dedup" =>
          \A sp \in SitePropertyPairs :
              LET before == {r \in store : r.site = sp[1] /\ r.property = sp[2]}
                  after == {r \in store' : r.site = sp[1] /\ r.property = sp[2]}
              IN  /\ after \subseteq before
                  /\ before # {} => Cardinality(after) = 1
                  /\ \A a \in after : \A b \in before : a.timestamp >= b.timestamp
                  /\ Cardinality(before) = 1 => after = before
      ]_vars

\* three records of one pair, written at three times, were reduced to the
\* latest, beside the single record of another pair
C6_Witness ==
    /\ lastOp.op = "dedup"
    /\ lastOp.totalRecordsRemoved = 2
    /\ lastOp.removedTimes = {0, 1}
    /\ Cardinality(store) = 2
    /\ \E r \in store : r.timestamp = 2 /\ r.site = "US" /\ r.property = "color"
    /\ \E r \in store : r.site = "UK"

(***************************************************************************)
(* Claims about the Verification Orchestrator                              *)
(***************************************************************************)
InFlightSubtasks(r) == {j \in 1..Len(subtasks[r]) : Pending(subtasks[r][j])}

\* C7: within one attribute at most 3 subtasks are in flight at any time.
\* Every subtask's async function is called when it is pushed, so with four
\* sites to process four subtasks are in flight before the first batch is
\* awaited.
C7_AtMostThreeInFlight ==
    \A r \in Runs : Cardinality(InFlightSubtasks(r)) <= concurrencyLimit

\* C8: once a run is reported as paused it has no subtask in flight, so it
\* makes no further AI call and writes no further record.  The subtasks of
\* the batches not yet awaited are in flight when the first batch settles and
\* the cleared flag is seen.
C8_PausedRunIsQuiet ==
    \A r \in Runs : runPc[r] = "paused" => InFlightSubtasks(r) = {}

\* C9 as stated: a pair is skipped iff a completed record exists for its own
\* key (site, productType, attribute), and is enqueued otherwise.
C9_SkipIffOwnKeyCompleted ==
    lastCheck.op = "check" =>
        /\ lastCheck.skipped <=> lastCheck.productType \in lastCheck.completedTypes
        /\ lastCheck.pushed <=> ~lastCheck.skipped

\* C9 amended: a pair is skipped (the skip counter incremented, no subtask
\* pushed) iff a completed record exists for its site and attribute under any
\* product type, and a subtask is pushed otherwise.
C9_SkipIffSitePropertyCompleted ==
    lastCheck.op = "check" =>
        /\ lastCheck.skipped <=> lastCheck.completedTypes # {}
        /\ lastCheck.pushed <=> ~lastCheck.skipped

C9_Witness ==
    /\ lastCheck.op = "check"
    /\ lastCheck.site = "US" /\ lastCheck.productType = "SHOES"
    /\ lastCheck.property = "color"
    /\ lastCheck.completedTypes = {"BOOTS"}
    /\ lastCheck.skipped /\ ~lastCheck.pushed
    /\ skippedSubtasks[1] = 1
    /\ Len(subtasks[1]) = 3

\* C10: an error in a subtask aborts neither its siblings nor the run.  While
\* no pause was requested, no subtask's promise is rejected and a run leaves an
\* attribute only when all its subtasks have finished; a subtask that finished
\* with its record saved has that record in the store; a run that completed
\* went through every attribute, and a run stops early only on a pause request;
\* no subtask is left with a promise that nothing settles, which keeps its run
\* from the next attribute for ever.
C10_ErrorsAreContained ==
    \A r \in Runs :
        /\ runPc[r] = "paused" => pauseRequested
        /\ runPc[r] = "completed" =>
            /\ runIndex[r] = Len(AdapterProperties)
            /\ ~pauseRequested => subtasks[r] = <<>>
        /\ runPc[r] = "stats" =>
            \A j \in 1..Len(subtasks[r]) : subtasks[r][j].pc = "done"
        /\ (~pauseRequested /\ runPc[r] \in {"refs", "types", "check", "batch", "stats"}) =>
            \A j \in 1..Len(subtasks[r]) :
                /\ subtasks[r][j].property = CurrentProperty(r)
                /\ subtasks[r][j].pc # "rejected"
        /\ \A j \in 1..Len(subtasks[r]) : subtasks[r][j].pc # "unsettled"
        /\ \A j \in 1..Len(subtasks[r]) :
            LET t == subtasks[r][j] IN
            (t.pc = "done" /\ t.saved) =>
                \E x \in store :
                    /\ x.id = generateId(t.site, t.productType, t.property)
                    /\ x.status = t.status
                    /\ x.aiGeneratedData = t.aiGeneratedData

\* the subtasks of material that finished, saved, on the AI response `text`
FinishedOn(text) ==
    {t \in UNION {Range(subtasks[r]) : r \in Runs} :
        /\ t.property = "material" /\ t.site = "US" /\ t.productType = "SHOES"
        /\ t.pc = "done" /\ t.saved /\ t.response = text}

\* C11: processing material with applicability {US: SHOES}, a schema holding
\* properties.material and the AI response [{"value":"leather"}] leaves exactly
\* one record keyed US-SHOES-material, completed, whose data is the canonical
\* text [{"value":"leather"}].  The record is completed, but its data is the
\* JSON string literal of the indented text generateJson returned.
C11_EndToEndCanonical ==
    FinishedOn("[{\"value\":\"leather\"}]") # {} =>
        /\ Cardinality({x \in store : x.id = "US-SHOES-material"}) = 1
        /\ \A x \in store : x.id = "US-SHOES-material" =>
            /\ x.status = "completed"
            /\ x.aiGeneratedData = "[{\"value\":\"leather\"}]"

AllSubtasks == UNION {Range(subtasks[r]) : r \in Runs}

\* the violations of the property's schema by the response text of subtask t
Violations(t) ==
    LET aiData == generateJson([ok |-> TRUE, text |-> t.response]).text IN
    IF JSONparse(aiData).ok
    THEN Errors(JObj(<<JMember(t.property, JSONparse(aiData).v)>>),
                processedSchema(t.property), "")
    ELSE <<>>

\* C12: a subtask that reached validation hands to the store a result that is
\* completed iff validation found no violation, and failed otherwise with a
\* message naming the path and the keyword of every violation; once saved, the
\* store holds exactly that one record under its key; and the subtask never
\* goes back to its schema fetch or its AI call.
C12_StatusReflectsValidation ==
    /\ [](\A t \in AllSubtasks : (t.pc \in {"save", "done"} /\ t.response # "") =>
            LET aiData == generateJson([ok |-> TRUE, text |-> t.response]).text IN
            /\ t.status = "completed" <=> (JSONparse(aiData).ok /\ Violations(t) = <<>>)
            /\ t.status \in {"completed", "failed"}
            /\ t.status = "failed" => t.error # ""
            /\ \A n \in 1..Len(Violations(t)) :
                /\ Includes(t.error, (IF Violations(t)[n].instancePath = "" THEN "root"
                                      ELSE Violations(t)[n].instancePath) \o ": ")
                /\ Includes(t.error, "(keyword: " \o Violations(t)[n].keyword \o ")")
            /\ (t.pc = "done" /\ t.saved) =>
                /\ Cardinality({x \in store :
                       x.id = generateId(t.site, t.productType, t.property)}) = 1
                /\ \E x \in store :
                    /\ x.id = generateId(t.site, t.productType, t.property)
                    /\ x.status = t.status /\ x.error = t.error
                    /\ x.aiGeneratedData = t.aiGeneratedData)
    /\ [][\A r \in Runs : \A t \in Range(subtasks[r]) :
            t.pc \in {"save", "done"} =>
                ~\E u \in Range(subtasks'[r]) :
                    /\ u.site = t.site /\ u.property = t.property
                    /\ u.pc \in {"schema", "ai"}]_vars

C12_Witness ==
    \E t \in AllSubtasks :
        /\ t.pc = "done" /\ t.saved /\ t.response = "[{},{\"value\":1}]"
        /\ Len(Violations(t)) = 2
        /\ \E x \in store :
            /\ x.id = "US-SHOES-material" /\ x.status = "failed"
            /\ x.error = "AI data validation failed: /material/0: must have required property 'value' (keyword: required); /material/1/value: must be string (keyword: type)"

\* C13: the Data Repair Engine is idempotent: run on its own output it
\* returns the identical compressed string with wasModified = false.
C13_RepairIsIdempotent ==
    Len(repairResult) = 2 =>
        /\ repairResult[2].compressed = repairResult[1].compressed
        /\ ~repairResult[2].wasModified

\* the stored text is one JSON array with extra text before or after it
ArrayFragments == {"[1]", "[\"a : b\"]"}
ExtraText == {"x", " ", ","}
OneArrayWithExtraText ==
    /\ Len(inputParts) >= 2
    /\ \E n \in 1..Len(inputParts) :
          /\ inputParts[n] \in ArrayFragments
          /\ \A k \in 1..Len(inputParts) : k # n => inputParts[k] \in ExtraText
    /\ \E n \in 1..Len(inputParts) : inputParts[n] \in {"x", ","}
TheArray ==
    inputParts[CHOOSE n \in 1..Len(inputParts) : inputParts[n] \in ArrayFragments]

\* C14: from a malformed text that contains one valid JSON array, the engine
\* extracts exactly that array and reports isValidArray = true.
C14_ExtractsTheArray ==
    (Len(repairResult) >= 1 /\ OneArrayWithExtraText) =>
        /\ repairResult[1].isValidArray
        /\ repairResult[1].compressed = JSONstringify(JSONparse(TheArray).v)

\* the data is an object that holds every member the schema requires, and
\* the schema constrains nothing else
RequiredPresent ==
    /\ valData.t = "object"
    /\ valSchema.properties = <<>>
    /\ \A n \in 1..Len(valSchema.required) : HasMember(valData, valSchema.required[n])

\* the members the schema requires and the object lacks
MissingRequired ==
    IF valData.t # "object" THEN {}
    ELSE {valSchema.required[n] : n \in 1..Len(valSchema.required)}
             \ {valData.a[n].s : n \in 1..Len(valData.a)}

\* the returned list has a `required` entry for member k of the root
RequiredEntry(r, k) ==
    \E n \in 1..Len(r.list) :
        /\ r.list[n].keyword = "required"
        /\ r.list[n].instancePath = ""
        /\ r.list[n].message = "must have required property '" \o k \o "'"

\* C15 as stated: validate always returns a list, empty when the data
\* satisfies the schema, and holding a `required` entry for each required
\* member that is missing.
C15_ValidateReturnsAList ==
    valErrors # <<>> =>
        /\ valErrors[1].type = "array"
        /\ RequiredPresent => valErrors[1].list = <<>>
        /\ \A k \in MissingRequired : RequiredEntry(valErrors[1], k)

\* C15: validate returns nothing (undefined) when the data satisfies the
\* schema; when a required member is missing it returns a non-empty list
\* holding a `required` entry for that member; it never returns an empty list.
C15_ValidateReturnsErrorsOrNothing ==
    valErrors # <<>> =>
        /\ RequiredPresent => valErrors[1] = Undefined
        /\ \A k \in MissingRequired :
              /\ valErrors[1].type = "array"
              /\ RequiredEntry(valErrors[1], k)
        /\ valErrors[1].type = "array" => valErrors[1].list # <<>>

\* {"color":"red"} was validated against {"required":["color"]}
C15_Witness ==
    /\ valData = JObj(<<JMember("color", JStr("red"))>>)
    /\ valSchema = Schema("any", <<"color">>, <<>>, <<>>, 0)
    /\ valErrors = <<Undefined>>

\* the completed results of the property a sync was asked for, and the data
\* strings among them
CompletedOfProperty ==
    {r \in store : r.status = "completed" /\ r.property = syncProperty}
DataStrings == {r.aiGeneratedData : r \in CompletedOfProperty}

\* one group per distinct data string of the completed results, none for
\* anything else, and no site twice in a group
OneGroupPerValue ==
    /\ \A v \in DataStrings :
          Cardinality({g \in 1..Len(groupedData) :
                          groupedData[g].attributeValue = v}) = 1
    /\ \A g \in 1..Len(groupedData) :
          /\ groupedData[g].attributeValue \in DataStrings
          /\ groupedData[g].attributeName = syncProperty
          /\ \A m, n \in 1..Len(groupedData[g].sites) :
                groupedData[g].sites[m] = groupedData[g].sites[n] => m = n

\* the groups were computed from the store read
GroupsComputed ==
    /\ syncPc # "idle"
    /\ batchResult[1].results = <<>>
          \/ batchResult[1].results[1].error # "Failed to get results by property"

\* C16 as stated: one group per distinct data string among the completed
\* results of the property; each such result's site is in the group of its
\* value and in no other group; no site twice in a group; failed results and
\* results of other properties contribute to no group.
C16_SiteOnlyInGroupOfItsValue ==
    GroupsComputed =>
        /\ OneGroupPerValue
        /\ \A r \in CompletedOfProperty : \A g \in 1..Len(groupedData) :
              r.site \in Range(groupedData[g].sites)
                  <=> groupedData[g].attributeValue = r.aiGeneratedData

\* C16: one group per distinct data string among the completed results of the
\* property; a site is in a group exactly when a completed result of the
\* property with the group's value has that site (so a site whose product
\* types have different values is in several groups); no site twice in a
\* group; failed results and results of other properties contribute to no
\* group.
C16_GroupsByValue ==
    GroupsComputed =>
        /\ OneGroupPerValue
        /\ \A g \in 1..Len(groupedData) :
              Range(groupedData[g].sites)
                  = {r.site : r \in {c \in CompletedOfProperty :
                        c.aiGeneratedData = groupedData[g].attributeValue}}

\* US and UK hold red, US (another product type) and DE hold blue, beside a
\* failed record and a record of another property
C16_Witness ==
    /\ GroupsComputed
    /\ syncProperty = "color"
    /\ store = SyncPool
    /\ Len(groupedData) = 2
    /\ groupedData[1].sites = <<"DE", "US">>
    /\ groupedData[2].sites = <<"UK", "US">>

\* syncStatus is an optional field of a stored result
SyncStatusOf(r) ==
    IF "syncStatus" \in DOMAIN r THEN r.syncStatus ELSE "undefined"

\* the stored results that make up a group
Constituents(groupData) ==
    {r \in store : /\ r.status = "completed"
                   /\ r.property = groupData.attributeName
                   /\ r.aiGeneratedData = groupData.attributeValue
                   /\ r.site \in Range(groupData.sites)}

\* C17: after a group is submitted successfully the sync status of every
\* stored result that makes up the group is synced; when the submission fails
\* the group's outcome is failed and carries the error text.
C17_GroupSyncUpdatesStatus ==
    \A g \in 1..Len(groupedData) :
        (batchResult # <<>> /\ g <= Len(batchResult[1].results)
         /\ batchResult[1].total > 0) =>
            IF batchResult[1].results[g].success
            THEN \A r \in Constituents(groupedData[g]) :
                    SyncStatusOf(r) = "synced"
            ELSE batchResult[1].results[g].error # ""

\* the ids of a set of records
Ids(records) == {r.id : r \in records}

\* C18: the retry re-runs processing only for the records that are failed
\* when it starts: a record that was completed then is never modified or
\* regenerated (it is in the store as it was, unless the operator deleted
\* it), no record is created for a key that was not stored, and no
\* applicability lookup is made.
C18_RetryTouchesOnlyFailed ==
    retryPc # "idle" =>
        /\ \A r \in startStore :
              r.status = "completed" => (r \in store \/ r.id \notin Ids(store))
        /\ \A r \in store :
              r \notin startStore =>
                 \E f \in startStore : f.id = r.id /\ f.status = "failed"
        /\ Ids(store) \subseteq Ids(startStore)
        /\ Len(retryTasks) = Cardinality({r \in startStore : r.status = "failed"})
        /\ apiCalls \subseteq {"getSchema", "getReferenceProperties", "generateJson"}

\* the retry ended: of the failed records one is completed now, one is
\* failed still with a new error, and the completed record is as it was
C18_Witness ==
    /\ retryPc = "done"
    /\ Cardinality(startStore) = 3
    /\ \E r \in store : r \notin startStore /\ r.status = "completed"
    /\ \E r \in store : r \notin startStore /\ r.status = "failed"
    /\ \E r \in store : r \in startStore /\ r.status = "completed"
    /\ apiCalls = {"getSchema", "getReferenceProperties", "generateJson"}

\* the record was stored as failed because its data violates the schema
FailedValidation(r) ==
    r.status = "failed" /\ Includes(r.error, "AI data validation failed")

\* C19: the cleanup promotes a failed record to completed only if it was
\* failed purely because of formatting: a record that is failed because its
\* data violates the schema is still failed after the cleanup.
C19_SchemaViolationStaysFailed ==
    cleaningPc = "done" =>
        \A r \in cleaningStart :
            (FailedValidation(r) /\ get(store, r.id) # Null)
                => get(store, r.id).status = "failed"

\* C20: a rate-limit failure of an AI call is retried up to 3 times; when the
\* bound is reached the error is surfaced and the subtask is recorded as
\* failed; so the AI requests of one subtask are bounded, and the subtask
\* always terminates when each request terminates.
C20_BoundedRetriesAndTermination ==
    /\ [](aiRequests <= maxRetries + 1)
    /\ [](Includes(IF attemptResult = <<>> THEN "" ELSE attemptResult.error,
                   "Maximum retry attempts reached")
            => attemptResult.status = "failed")
    /\ <>(attemptPc = "done")

\* the attributes that have a subtask in flight, over all runs
AttributesInFlight ==
    UNION {{subtasks[r][j].property : j \in InFlightSubtasks(r)} : r \in Runs}

\* C21: across attributes processing is strictly sequential: at any time the
\* subtasks in flight belong to one attribute at most, whatever the start and
\* pause requests were.
C21_OneAttributeInFlight == Cardinality(AttributesInFlight) <= 1

\* a run is running from its start to its completion or its pause
Running(r) == runPc[r] \in {"refs", "types", "check", "batch", "stats"}

\* C22: a run follows idle -> running -> (paused | completed).  It is paused
\* only if a pause was requested during it, completed only if it went through
\* every attribute and no pause was requested during it; it leaves idle only
\* for running, never leaves paused or completed, and while running goes
\* through the attributes one by one in list order.
C22_RunStateMachine ==
    /\ [](\A r \in Runs :
            /\ runPc[r] = "paused" => r \in pausedRuns
            /\ runPc[r] = "completed" =>
                /\ runIndex[r] = Len(AdapterProperties)
                /\ r \notin pausedRuns)
    /\ [][\A r \in Runs :
            /\ runPc[r] = "idle" => (runPc'[r] = "idle" \/ Running(r)')
            /\ runPc[r] \in {"paused", "completed"} => runPc'[r] = runPc[r]
            /\ runIndex'[r] \in {runIndex[r], runIndex[r] + 1}
            /\ (Running(r) /\ ~Running(r)') => runPc'[r] \in {"paused", "completed"}]_vars

\* C23: a schema error is fatal to its subtask only, is not retried, and is
\* recorded: once a subtask has finished on an attribute that its schema
\* lacks, the store holds a failed record of its key with that message.
C23_SchemaErrorRecorded ==
    \A r \in Runs : \A j \in 1..Len(subtasks[r]) :
        LET t == subtasks[r][j] IN
        (t.pc = "done" /\ t.error = "Property not found in schema") =>
            \E x \in store :
                /\ x.id = generateId(t.site, t.productType, t.property)
                /\ x.status = "failed"
                /\ x.error = t.error

\* C24: a storage error while persisting a result does not abort the batch,
\* in a run and in retry-failed alike: no subtask and no retry callback ends
\* rejected, and retry-failed ends only when the callbacks of every batch have
\* been started.
C24_StorageErrorDoesNotAbort ==
    /\ \A r \in Runs : \A j \in 1..Len(subtasks[r]) : subtasks[r][j].pc # "rejected"
    /\ \A j \in 1..Len(retryTasks) : retryTasks[j].pc # "rejected"
    /\ retryPc = "done" =>
          \A j \in 1..Len(retryTasks) : retryTasks[j].pc # "waiting"

ProcessingMethods == {"json_parsed", "string_processed", "already_compressed"}

\* the stored result the latest cleanup callback worked on
CleanedResult == CHOOSE r \in Range(allResults) : r.id = lastOp.id

\* C25: the Data Repair Engine never throws: on every text it returns a
\* result; and when it reports isValidArray = false for the data of a record,
\* the cleanup leaves that record with the status failed.
C25_InvalidArrayIsFailed ==
    /\ \A i \in 1..Len(repairResult) :
          repairResult[i].processingMethod \in ProcessingMethods
    /\ (lastOp.op = "clean" /\ CleanedResult.aiGeneratedData # "") =>
          /\ ensureCompressedJson(CleanedResult.aiGeneratedData).processingMethod
                \in ProcessingMethods
          /\ ~ensureCompressedJson(CleanedResult.aiGeneratedData).isValidArray
                => get(store, CleanedResult.id).status = "failed"

\* the data of a stored result is the JSON string "leather": the engine
\* reports no array and the cleanup has written the record back as failed
C25_Witness ==
    /\ lastOp.op = "clean"
    /\ CleanedResult.aiGeneratedData = "\"leather\""
    /\ ~ensureCompressedJson(CleanedResult.aiGeneratedData).isValidArray
    /\ get(store, CleanedResult.id).status = "failed"
    /\ get(store, CleanedResult.id).error = "Array validation failed"
    /\ get(store, CleanedResult.id).timestamp = now

\* a pointer is left in schema.properties, at any depth of properties and items
RECURSIVE RefRemains(_)
RefRemains(schema) ==
    /\ schema.t = "object"
    /\ \/ hasRef(schema)
       \/ /\ hasObject(schema, "properties")
          /\ \E n \in 1..Len(Member(schema, "properties").a) :
                 RefRemains(Member(schema, "properties").a[n].a[1])
       \/ /\ hasObject(schema, "items")
          /\ RefRemains(Member(schema, "items"))

\* a pointer of the schema, at any depth of properties and items, leads nowhere
RECURSIVE RefDangles(_, _)
RefDangles(schema, rootSchema) ==
    /\ schema.t = "object"
    /\ \/ /\ hasRef(schema)
          /\ ~resolveRef(rootSchema, Member(schema, "$ref").s).ok
       \/ /\ hasObject(schema, "properties")
          /\ \E n \in 1..Len(Member(schema, "properties").a) :
                 RefDangles(Member(schema, "properties").a[n].a[1], rootSchema)
       \/ /\ hasObject(schema, "items")
          /\ RefDangles(Member(schema, "items"), rootSchema)

\* C26: after parseSchemaProperties succeeds no $ref is left at any depth of
\* the nested object and array-of-object structure, also inside the
\* definitions it substituted; a pointer that cannot be traversed makes the
\* call fail with a ReferenceError
C26_EveryRefResolved ==
    refOutcome # <<>> =>
        /\ refOutcome[1].ok => ~RefRemains(refOutcome[1].v)
        /\ RefDangles(refSchema[1], refSchema[1]) =>
               ~refOutcome[1].ok /\ refOutcome[1].name = "ReferenceError"

Leaves ==
    UNION {UNION {{[property |-> propertyGroups[1][p].propertyName,
                    value |-> propertyGroups[1][p].valueGroups[v].value,
                    info |-> propertyGroups[1][p].valueGroups[v].sites[s]] :
                      s \in 1..Len(propertyGroups[1][p].valueGroups[v].sites)} :
                  v \in 1..Len(propertyGroups[1][p].valueGroups)} :
           p \in 1..Len(propertyGroups[1])}

\* the places a result takes in a leaf
PlacesIn(leaf, result) ==
    {n \in 1..Len(leaf.info.results) : leaf.info.results[n] = result}

\* C28: in the PropertyGroup / ValueGroup / SiteInfo projection every result
\* is in exactly one leaf, once, and the site and the product type of that
\* leaf are its own
C28_EveryResultInOneLeaf ==
    propertyGroups # <<>> =>
        \A n \in 1..Len(viewResults) :
            \E leaf \in Leaves :
                /\ Cardinality(PlacesIn(leaf, viewResults[n])) = 1
                /\ leaf.info.site = viewResults[n].site
                /\ leaf.info.productType = viewResults[n].productType
                /\ leaf.property = viewResults[n].property
                /\ \A other \in Leaves \ {leaf} : PlacesIn(other, viewResults[n]) = {}

\* C29: the full sync submits the groups one after the other: a request
\* leaves only when none is in flight, the groups posted are the groups built
\* from the store, each once and in their order, and when the sync has ended
\* every group has been posted and has its entry, whatever requests failed
C29_SequentialSubmission ==
    /\ inFlight <= 1
    /\ inFlight = 1 <=> allPc = "awaiting"
    /\ allPc # "idle" /\ allGroupedData # <<>> =>
           allGroupedData = collectGroups(getAllPropertyNames, 1)
    /\ posted = [n \in 1..Len(posted) |-> n]
    /\ Len(posted) <= Len(allGroupedData)
    /\ allPc = "done" =>
           /\ Len(posted) = Len(allGroupedData)
           /\ allGroupedData # <<>> =>
                  /\ Len(allResult[1].results) = Len(allGroupedData)
                  /\ \A n \in 1..Len(allGroupedData) :
                         allResult[1].results[n].property
                             = allGroupedData[n].attributeName

\* a full sync has ended whose first request failed and that posted a later
\* group all the same
C29_Witness ==
    /\ allPc = "done"
    /\ Len(allGroupedData) > 1
    /\ ~allResult[1].results[1].success
    /\ Len(posted) = Len(allGroupedData)

\* the subtasks whose generateJson call has not settled: each has a request
\* at the AI backend
AiRequestsInFlight ==
    UNION {{<<r, j>> : j \in {k \in 1..Len(subtasks[r]) : subtasks[r][k].pc = "ai"}} :
           r \in Runs}

\* C30: every AI request of a subtask is made inside RateLimiter.execute: it
\* holds one of the Rate Limiter's slots, so at most AI_API_RATE_LIMIT AI
\* requests are in flight over all the subtasks
C30_AiRequestsRateLimited ==
    /\ Cardinality(AiRequestsInFlight) <= runningCount
    /\ Cardinality(AiRequestsInFlight) <= AI_API_RATE_LIMIT

\* the calls that have a request for the schema of the key in flight
Fetching(key) == {c \in SchemaCallers : getPc[c] = "fetching" /\ getPair[c] = key}

\* C31: the schema of a pair is fetched at most once while it is cached: no
\* request leaves for a cached pair, the calls of a batch that need the same
\* uncached schema share one request (at most one is in flight per pair, and
\* at most one fetch of a pair succeeds), and a failed fetch adds no entry
C31_SchemaFetchedOnce ==
    /\ [](\A key \in CacheKeys :
            /\ Cardinality(Fetching(key)) <= 1
            /\ fetchesDone[key] <= 1
            /\ key \in cachedSchemas => Fetching(key) = {})
    /\ [][\A key \in CacheKeys :
            /\ fetchesStarted'[key] > fetchesStarted[key] => key \notin cachedSchemas
            /\ (key \in cachedSchemas' /\ key \notin cachedSchemas)
                   => fetchesDone'[key] > fetchesDone[key]]_vars

\* the value with every member named k taken out, at any depth
RECURSIVE WithoutName(_, _)
WithoutName(v, k) ==
    IF v.t = "array" THEN JArr([n \in 1..Len(v.a) |-> WithoutName(v.a[n], k)])
    ELSE IF v.t = "object"
    THEN LET others == SelectSeq(v.a, LAMBDA m : m.s # k) IN
         JObj([n \in 1..Len(others) |->
                  JMember(others[n].s, WithoutName(others[n].a[1], k))])
    ELSE v

\* some object inside the value has a member named k
RECURSIVE HoldsName(_, _)
HoldsName(v, k) ==
    IF v.t = "array" THEN \E n \in 1..Len(v.a) : HoldsName(v.a[n], k)
    ELSE IF v.t = "object"
    THEN \E n \in 1..Len(v.a) : v.a[n].s = k \/ HoldsName(v.a[n].a[1], k)
    ELSE FALSE

\* C32: for any parsed JSON value, the call returns a value that has no
\* "marketplace_id" member at any depth and keeps every other member and
\* value as it was, its flag is true exactly when the input had such a
\* member, and a second call on the output changes nothing and reports
\* nothing removed.
C32_StripsOnlyMarketplaceId ==
    /\ stripPc \in {"stripped", "again"} =>
          /\ ~stripResult.threw
          /\ ~HoldsName(stripResult.cleaned, "marketplace_id")
          /\ stripResult.cleaned = WithoutName(stripInput, "marketplace_id")
          /\ stripResult.removed = HoldsName(stripInput, "marketplace_id")
    /\ stripPc = "again" =>
          /\ ~stripAgain.threw
          /\ stripAgain.cleaned = stripResult.cleaned
          /\ ~stripAgain.removed

\* the string values of a value, in the order of the text
RECURSIVE StringValues(_)
RECURSIVE StringValuesOf(_, _)
StringValuesOf(items, n) ==
    IF n > Len(items) THEN <<>>
    ELSE StringValues(items[n]) \o StringValuesOf(items, n + 1)

StringValues(v) ==
    IF v.t = "string" THEN <<v.s>>
    ELSE IF v.t = "array" THEN StringValuesOf(v.a, 1)
    ELSE IF v.t = "object"
    THEN StringValuesOf([n \in 1..Len(v.a) |-> v.a[n].a[1]], 1)
    ELSE <<>>

\* the stored text is the JSON text of an array or an object
ParsesAsJson ==
    /\ JSONparse(storedText).ok
    /\ JSONparse(storedText).v.t \in {"array", "object"}

\* C33: whitespace is collapsed only outside of string literals: for a stored
\* text that parses as JSON, the text handed back parses as JSON and every
\* string value in it has the characters it has in the input (the members
\* named marketplace_id aside, which the engine removes).
C33_StringValuesKeptVerbatim ==
    (Len(repairResult) >= 1 /\ ParsesAsJson) =>
        /\ JSONparse(repairResult[1].compressed).ok
        /\ StringValues(JSONparse(repairResult[1].compressed).v)
               = StringValues(WithoutName(JSONparse(storedText).v,
                                          "marketplace_id"))

\* C34: upserts of different (site, productType, property) triples never
\* overwrite one another: different triples have different ids, also when a
\* component holds a '-', and every triple saved keeps a record of its own.
C34_DistinctKeysDistinctRecords ==
    /\ \A k1, k2 \in written :
          k1 # k2 => generateId(k1[1], k1[2], k1[3])
                        # generateId(k2[1], k2[2], k2[3])
    /\ \A k \in written :
          \E r \in store :
             <<r.site, r.productType, r.property>> = k

\* C35: duplicate removal picks the survivor of a (site, property) pair by
\* timestamp alone: when one record of the pair is later than all its others
\* it is the one kept, whatever its status, so a latest record that is failed
\* is kept while an older completed one is deleted and the pair is left
\* without a completed record.
C35_SurvivorByTimestampAlone ==
    [][ lastOp'.op = "dedup" =>
          \A sp \in SitePropertyPairs :
              LET before == {r \in store : r.site = sp[1] /\ r.property = sp[2]}
                  after == {r \in store' : r.site = sp[1] /\ r.property = sp[2]}
              IN  \A latest \in before :
                      (\A o \in before \ {latest} :
                           o.timestamp < latest.timestamp)
                      => /\ after = {latest}
                         /\ latest.status = "failed"
                               => \A a \in after : a.status # "completed"
      ]_vars

\* a failed record written last survived an older completed record of its
\* pair, which was deleted
C35_Witness ==
    /\ lastOp.op = "dedup"
    /\ lastOp.totalRecordsRemoved = 1
    /\ lastOp.removedStatuses = {"completed"}
    /\ lastOp.removedTimes = {0}
    /\ \E r \in store :
          /\ r.site = "US" /\ r.property = "color"
          /\ r.status = "failed" /\ r.timestamp = 1
    /\ ~\E r \in store :
          r.site = "US" /\ r.property = "color" /\ r.status = "completed"

\* C38: in every state of the Rate Limiter runningCount is the number of
\* admitted callers that have not released their slot and lies in
\* 0..maxConcurrent; the queue holds waiters only while runningCount is
\* maxConcurrent; and when every execute() call made has run to its end,
\* runningCount is 0 and the queue is empty.
C38_SlotAccounting ==
    /\ runningCount = Cardinality({c \in Callers : HoldsSlot(c)})
    /\ runningCount \in 0..maxConcurrent
    /\ queue # <<>> => runningCount = maxConcurrent
    /\ (\A c \in 1..nCalled : callerPc[c] = "done")
          => runningCount = 0 /\ queue = <<>>

\* every call of a limiter of two slots has run to its end, the last slot
\* having gone to a waiter woken from the queue
C38_Witness ==
    /\ maxConcurrent = 2
    /\ nCalled = Launches
    /\ \A c \in 1..nCalled : callerPc[c] = "done"
    /\ lastWake[1] # 0
    /\ runningCount = 0
    /\ queue = <<>>

\* the callers waiting out a retry delay
WaitingOutDelay == {c \in RetryCallers : lrStage[c] = "waiting"}

\* C36: a call waiting out its retry delay holds no slot of the Rate Limiter
\* and is not in its queue; while it waits and others are queued, every slot
\* is held by a call that is not waiting; and when its timer fires with
\* callers queued, the call is queued behind them.
C36_NoSlotHeldDuringRetryDelay ==
    /\ [](/\ \A c \in WaitingOutDelay :
                /\ ~HoldsSlot(c)
                /\ \A n \in 1..Len(queue) : queue[n] # c
          /\ runningCount = Cardinality({c \in RetryCallers : HoldsSlot(c)})
          /\ (WaitingOutDelay # {} /\ queue # <<>>) =>
                Cardinality({c \in RetryCallers \ WaitingOutDelay :
                                HoldsSlot(c)}) = maxConcurrent)
    /\ [][\A c \in WaitingOutDelay :
             (lrStage'[c] # "waiting" /\ queue # <<>>)
                 => queue' = Append(queue, c)]_vars

\* the first call was answered 429 and gave its slot to the second; its
\* retry was queued behind the third while the second was in flight
C36_Witness ==
    /\ lrRetryCount[1] = 1
    /\ lrReply[1] = "429"
    /\ callerPc[2] = "running"
    /\ queue = <<3, 1>>

SyncFields == {"syncStatus", "syncTimestamp", "syncError"}

\* C37: updateSyncStatus changes only syncStatus, syncTimestamp and syncError
\* of the record of its id: every other field of that record and every other
\* record are as before; for an id without a record it rejects and the store
\* is as before.
C37_OnlySyncFieldsChange ==
    [][ lastOp'.op = "syncStatus" =>
          IF \E r \in store : r.id = lastOp'.id
          THEN /\ ~lastOp'.rejected
               /\ \E r \in store, u \in store' :
                     /\ r.id = lastOp'.id
                     /\ u.id = lastOp'.id
                     /\ store' \ {u} = store \ {r}
                     /\ DOMAIN u = DOMAIN r \cup SyncFields
                     /\ \A f \in DOMAIN r \ SyncFields : u[f] = r[f]
          ELSE /\ lastOp'.rejected
               /\ store' = store
      ]_vars

\* the completed record written at time 0 was marked sync_failed at a later
\* time, beside the other record
C37_Witness ==
    /\ lastOp.op = "syncStatus"
    /\ ~lastOp.rejected
    /\ Cardinality(store) = 2
    /\ \E r \in store :
          /\ r.id = lastOp.id
          /\ DOMAIN r = DOMAIN StoredResult("", "", "", "", "", 0) \cup SyncFields
          /\ r.syncStatus = "sync_failed"
          /\ r.syncError = "Network Error"
          /\ r.syncTimestamp = 2
          /\ r.status = "completed"
          /\ r.timestamp = 0

\* C39: every batch result syncByProperty returns has total = success +
\* failed = the number of its per-group outcomes, also when there was
\* nothing to sync and when the read of the store failed.
C39_BatchResultCounts ==
    syncPc = "done" =>
        /\ batchResult[1].total = batchResult[1].success + batchResult[1].failed
        /\ batchResult[1].total = Len(batchResult[1].results)

=============================================================================
